---- MODULE Spec2Model ----
(***************************************************************************)
(* CanteenGo: the order lifecycle and pickup-code subsystem.               *)
(*                                                                         *)
(* The store is the hosted database: the orders, order_items and           *)
(* menu_items tables with their constraints, row-level security policies   *)
(* and the BEFORE INSERT trigger that assigns pickup codes.  The clients   *)
(* are the CanteenMenu page (placeOrder), the VendorDashboard              *)
(* (markOrderReady / markOrderCompleted), the MenuManagement page          *)
(* (handleDelete) and any authenticated caller of the store's REST         *)
(* interface, whose requests the policies are written against.             *)
(***************************************************************************)
EXTENDS Integers, Sequences, FiniteSets, TLC

----------------------------------------------------------------------------
(* Bounds of the model *)

MaxOrders == 2
MaxPlaced == 1
NumDraws == 2
MaxQuantity == 2
MaxEvents == 1

(* Program constants *)

CodeWidth == 6
CodeRange == 1000000

----------------------------------------------------------------------------
(* Reference data *)

Students == {"s1", "s2"}
Vendors == {"v1", "v2"}
Users == Students \cup Vendors

(* the rows of user_roles *)
InitialRoles == {<<u, "student">> : u \in Students} \cup {<<u, "vendor">> : u \in Vendors}

CanteenIds == {"c1", "c2"}
canteens == [c \in CanteenIds |-> [vendor_id |-> IF c = "c1" THEN "v1" ELSE "v2"]]

MenuIds == {"A", "B"}
InitialMenu == [m \in MenuIds |-> [canteen_id |-> "c1", price |-> IF m = "A" THEN 50 ELSE 30]]

Statuses == {"pending", "ready", "completed"}

(* SQL NULL of a TEXT column; a text value is a sequence of digits *)
NULL == <<>>

----------------------------------------------------------------------------
(* Text conversion used by the generator *)

RECURSIVE ToText(_)
ToText(n) == IF n < 10 THEN <<n>> ELSE ToText(n \div 10) \o <<n % 10>>

RECURSIVE LPAD(_, _, _)
LPAD(s, len, fill) ==
    IF Len(s) >= len THEN SubSeq(s, 1, len) ELSE LPAD(<<fill>> \o s, len, fill)

(* FLOOR(RANDOM() * 1000000): the values of the draw the model explores *)
Draws == {((i - 1) * 333333) % CodeRange : i \in 1..NumDraws}

Codes == {LPAD(ToText(n), CodeWidth, 0) : n \in Draws}

----------------------------------------------------------------------------
(* State *)

VARIABLES
    auth,              \* every client session: the signed-in user, auth.uid()
    user_roles,        \* table user_roles: set of <<user_id, role>>
    menu_items,        \* table menu_items: id -> [canteen_id, price]
    orders,            \* table orders: the committed rows, id = position
    order_items,       \* table order_items: set of rows
    ins,               \* per client: the INSERT INTO orders statement it has running
    lastUpdate,        \* the last UPDATE of orders the store ran: who, which row, what
    resp,              \* REST caller: the error of its last response ("" = none)
    sel,               \* REST caller: the rows its last SELECTs returned
    menuItems,         \* CanteenMenu: the fetched menu
    cart,              \* CanteenMenu: the cart
    placing,           \* CanteenMenu: placing flag
    ppc,               \* CanteenMenu: position inside placeOrder
    closure,           \* CanteenMenu: cart and orderData held by the running placeOrder
    pickupCode,        \* CanteenMenu: pickupCode
    showPickupDialog,  \* CanteenMenu: showPickupDialog
    ptoast,            \* CanteenMenu: last toast
    vorders,           \* VendorDashboard: orders (the fetched list: id -> status)
    updatingOrderId,   \* VendorDashboard: updatingOrderId (0 = null)
    vpc,               \* VendorDashboard: position inside markOrderReady/Completed
    vtoast,            \* VendorDashboard: last toast
    vrefetch,          \* VendorDashboard: a fetch started by the subscription is running
    vloading,          \* VendorDashboard: loading
    vinflight,         \* VendorDashboard: update requests sent and not yet answered
    mounted,           \* dashboards: the component is mounted
    channels,          \* realtime: the clients whose channel is registered
    events,            \* realtime: per client, the change events not yet delivered
    replica_identity,  \* table orders: its replica identity ("default" or "full")
    permission,        \* StudentDashboard's browser: Notification.permission
    notificationsEnabled, \* StudentDashboard: notificationsEnabled
    handlerEnabled,    \* StudentDashboard: notificationsEnabled as the channel's handler holds it
    sorders,           \* StudentDashboard: orders (the fetched list: id -> status)
    sreq,              \* StudentDashboard: fetchOrders requests the store has not read yet
    sresp,             \* StudentDashboard: fetchOrders responses on their way back
    sawait,            \* StudentDashboard: handlers waiting for the canteen's name
    lastReady,         \* StudentDashboard: the last pending -> ready event handled
    user,              \* useAuth: user (the user's id, NULL = null)
    session,           \* useAuth: session (the id of the session's user, NULL = null)
    userRole,          \* useAuth: userRole (NULL = null)
    loading,           \* useAuth: loading
    authSession,       \* the browser's auth client: the session it holds
    pending,           \* useAuth: the callbacks of the mounted hook that have not run yet
    path,              \* the browser's location
    apc,               \* useAuth: position inside signUp / signOut
    returned,          \* useAuth: what the last signUp / signOut reported
    horders,           \* OrderHistory: orders
    filteredOrders,    \* OrderHistory: filteredOrders
    statusFilter,      \* OrderHistory: statusFilter
    canteenFilter,     \* OrderHistory: canteenFilter
    dateFilter         \* OrderHistory: dateFilter (a text, <<>> = "")

storeVars == <<auth, user_roles, menu_items, orders, order_items, ins, lastUpdate, resp, sel>>
pageVars == <<menuItems, cart, placing, ppc, closure, pickupCode, showPickupDialog, ptoast>>
tabVars == <<vorders, updatingOrderId, vpc, vtoast>>
tabFeedVars == <<vrefetch, vloading, vinflight>>
feedVars == <<mounted, channels, replica_identity>>
dashVars == <<permission, notificationsEnabled, handlerEnabled, sorders, sreq, sresp, sawait, lastReady>>
hookVars == <<user, session, userRole, loading, authSession, pending, path, apc, returned>>
historyVars == <<horders, filteredOrders, statusFilter, canteenFilter, dateFilter>>
vars == <<storeVars, pageVars, tabVars, tabFeedVars, events, feedVars, dashVars, hookVars,
          historyVars>>

Pages == {"p1"}
Tabs == {"t1", "t2"}
ApiClients == {"a1", "a2", "a3"}
Slots == Pages \cup ApiClients
Dashes == {"d1"}
Clients == Pages \cup ApiClients \cup Tabs \cup Dashes

----------------------------------------------------------------------------
(* The store: constraints and row-level security policies *)

NoRow == [student_id |-> "", canteen_id |-> "", status |-> "",
          total_amount |-> 0, pickup_code |-> NULL]

has_role(roles, _user_id, _role) == <<_user_id, _role>> \in roles

(* EXISTS (SELECT 1 FROM canteens WHERE id = canteen_id AND vendor_id = auth.uid()) *)
OwnsCanteen(uid, canteen_id) ==
    \E c \in DOMAIN canteens : c = canteen_id /\ canteens[c].vendor_id = uid

(* Mutant: the policy checks the role and not whose order the row is *)
StudentsCanCreateOrders_RoleOnly(roles, uid, row) == has_role(roles, uid, "student")

(* policy "Students can create orders": WITH CHECK *)
StudentsCanCreateOrders(roles, uid, row) ==
    uid = row.student_id /\ has_role(roles, uid, "student")

(* Mutant: the policy checks the vendor role and not the canteen's owner *)
VendorsCanUpdateOrders_AnyVendor(uid, row) == has_role(InitialRoles, uid, "vendor")

(* policy "Vendors can update orders for own canteens": USING *)
VendorsCanUpdateOrders(uid, row) == OwnsCanteen(uid, row.canteen_id)

(* policy "Students can create order items": WITH CHECK *)
StudentsCanCreateOrderItems(ords, uid, item) ==
    \E o \in DOMAIN ords : o = item.order_id /\ ords[o].student_id = uid

(* policy "Vendors can delete menu items for own canteens": USING *)
VendorsCanDeleteMenuItems(uid, item) == OwnsCanteen(uid, item.canteen_id)

(* CHECK (status IN ('pending', 'ready', 'completed')) *)
orders_status_check(status) == status \in {"pending", "ready", "completed"}

(* Mutant: a unique index on the pickup code of active orders *)
OrdersConstraints_UniqueActiveCode(ords, row) ==
    /\ row.status \in {"pending", "ready", "completed"}
    /\ row.student_id \in Users
    /\ row.canteen_id \in DOMAIN canteens
    /\ ~\E o \in DOMAIN ords :
          ords[o].pickup_code = row.pickup_code /\ ords[o].status \in {"pending", "ready"}

(* The constraints of a row of orders besides its policies: the status check  *)
(* and the foreign keys.  pickup_code is a plain TEXT column: the table sets  *)
(* no condition on it.                                                        *)
OrdersConstraints(ords, row) ==
    /\ orders_status_check(row.status)
    /\ row.student_id \in Users
    /\ row.canteen_id \in DOMAIN canteens

(* order_items: order_id and menu_item_id are foreign keys *)
OrderItemsConstraints(ords, menu, item) ==
    /\ item.order_id \in DOMAIN ords
    /\ item.menu_item_id \in DOMAIN menu

----------------------------------------------------------------------------
(* generate_pickup_code and the trigger set_pickup_code *)

ActiveStatuses == {"pending", "ready"}

(* Mutant: the check finds no order *)
code_exists_Never(ords, code) == FALSE

(* Mutant: the check looks at ready orders only *)
code_exists_ReadyOnly(ords, code) ==
    \E o \in DOMAIN ords : ords[o].pickup_code = code /\ ords[o].status = "ready"

(* Mutant: the check looks at pending orders only *)
code_exists_PendingOnly(ords, code) ==
    \E o \in DOMAIN ords : ords[o].pickup_code = code /\ ords[o].status = "pending"

(* SELECT EXISTS (SELECT 1 FROM orders WHERE pickup_code = code              *)
(*                AND status IN ('pending', 'ready'))                        *)
code_exists(ords, code) ==
    \E o \in DOMAIN ords :
        ords[o].pickup_code = code /\ ords[o].status \in ActiveStatuses

(* Mutant: the trigger keeps a pickup code the caller supplied *)
set_pickup_code_KeepSupplied(new, code) ==
    IF new.pickup_code # NULL THEN new ELSE [new EXCEPT !.pickup_code = code]

(* NEW.pickup_code := generate_pickup_code(); RETURN NEW *)
set_pickup_code(new, code) == [new EXCEPT !.pickup_code = code]

----------------------------------------------------------------------------
(* Realtime: table orders is in the publication supabase_realtime.  A commit  *)
(* is announced to every registered channel whose event type and filter match *)
(* and whose user may SELECT the row.  The old record of an UPDATE carries    *)
(* the row's columns only when the table's replica identity is full.          *)

ReplicaIdentities == {"default", "full"}

(* Mutant: the policy lets every student read every order *)
StudentsCanViewOwnOrders_AnyStudent(uid, row) == has_role(InitialRoles, uid, "student")

(* policy "Students can view own orders": USING *)
StudentsCanViewOwnOrders(uid, row) == uid = row.student_id

(* policy "Vendors can view orders for own canteens": USING *)
VendorsCanViewOrders(uid, row) == OwnsCanteen(uid, row.canteen_id)

(* policy "Users can view order items for own orders": USING *)
UsersCanViewOrderItems(ords, uid, item) ==
    \E o \in DOMAIN ords :
        /\ o = item.order_id
        /\ \/ ords[o].student_id = uid
           \/ ords[o].canteen_id \in {c \in DOMAIN canteens : canteens[c].vendor_id = uid}

(* Mutant: the old record always reads as pending *)
OldStatus_Pending(status) == "pending"

(* payload.old.status *)
OldStatus(status) == IF replica_identity = "full" THEN status ELSE "undefined"

(* VendorDashboard listens to INSERT, StudentDashboard to UPDATE with the     *)
(* filter student_id=eq.<user.id>                                             *)
Subscribed(c, event, row) ==
    /\ c \in channels
    /\ IF c \in Tabs
       THEN event = "INSERT" /\ VendorsCanViewOrders(auth[c], row)
       ELSE /\ event = "UPDATE"
            /\ row.student_id = auth[c]
            /\ StudentsCanViewOwnOrders(auth[c], row)

(* the queues after the commit of row; was is the status the row had *)
Published(event, id, was, row) ==
    [c \in DOMAIN events |->
        IF Subscribed(c, event, row)
        THEN Append(events[c], [event |-> event, id |-> id, was |-> was,
                                old |-> OldStatus(was), new |-> row.status])
        ELSE events[c]]

----------------------------------------------------------------------------
(* INSERT INTO orders: the statement runs in three steps.  The BEFORE INSERT *)
(* trigger loops in generate_pickup_code, each iteration reading the rows    *)
(* committed so far; then the row is checked and committed.  Statements of   *)
(* different clients interleave between these steps.                         *)
(* ins[x].supplied keeps the pickup_code the caller sent, ins[x].code the    *)
(* value generate_pickup_code returned.                                      *)

NoInsert == [phase |-> "none", new |-> NoRow, supplied |-> NULL, code |-> NULL]

InFlight == Cardinality({x \in Slots : ins[x].phase # "none"})

BeginInsert(x, row) ==
    /\ ins[x].phase = "none"
    /\ ins' = [ins EXCEPT ![x] = [phase |-> "loop", new |-> row,
                                  supplied |-> row.pickup_code, code |-> NULL]]

(* Mutant: RANDOM() yields the same value in every iteration *)
GenerateLoop_SameDraw(x) ==
    /\ ins[x].phase = "loop"
    /\ LET code == LPAD(ToText(0), CodeWidth, 0)
       IN  IF code_exists(orders, code)
           THEN UNCHANGED ins
           ELSE ins' = [ins EXCEPT ![x].phase = "row",
                                   ![x].code = code,
                                   ![x].new = set_pickup_code(ins[x].new, code)]
    /\ UNCHANGED <<auth, user_roles, menu_items, orders, order_items, lastUpdate, resp, sel>>
    /\ UNCHANGED <<pageVars, tabVars>>
    /\ UNCHANGED <<events, feedVars, hookVars, historyVars, dashVars, tabFeedVars>>

(* One iteration of the LOOP of generate_pickup_code; on EXIT the function   *)
(* returns and the trigger stores the code in NEW.                           *)
GenerateLoop(x) ==
    /\ ins[x].phase = "loop"
    /\ \E n \in Draws :
          LET code == LPAD(ToText(n), CodeWidth, 0)
          IN  IF code_exists(orders, code)
              THEN UNCHANGED ins
              ELSE ins' = [ins EXCEPT ![x].phase = "row",
                                      ![x].code = code,
                                      ![x].new = set_pickup_code(ins[x].new, code)]
    /\ UNCHANGED <<auth, user_roles, menu_items, orders, order_items, lastUpdate, resp, sel>>
    /\ UNCHANGED <<pageVars, tabVars>>
    /\ UNCHANGED <<events, feedVars, hookVars, historyVars, dashVars, tabFeedVars>>

InsertError(x) ==
    IF ~StudentsCanCreateOrders(user_roles, auth[x], ins[x].new) THEN "rls"
    ELSE IF ~OrdersConstraints(orders, ins[x].new) THEN "constraint"
    ELSE ""

(* The row is checked and, if accepted, committed; the statement ends. *)
FinishInsert(x) ==
    /\ ins[x].phase = "row"
    /\ orders' = IF InsertError(x) = "" THEN Append(orders, ins[x].new) ELSE orders
    /\ events' = IF InsertError(x) = ""
                 THEN Published("INSERT", Len(orders) + 1, "", ins[x].new)
                 ELSE events
    /\ ins' = [ins EXCEPT ![x] = NoInsert]
    /\ UNCHANGED <<auth, user_roles, menu_items, order_items, lastUpdate>>

(* UPDATE orders SET status = st WHERE id = id: rows the USING policy hides  *)
(* are not updated and raise no error.                                       *)
UpdateRows(uid, id) ==
    {o \in DOMAIN orders : o = id /\ VendorsCanUpdateOrders(uid, orders[o])}

UpdateError(uid, id, st) ==
    IF UpdateRows(uid, id) # {} /\ ~orders_status_check(st) THEN "constraint" ELSE ""

NoUpdate == [client |-> "", id |-> 0, status |-> ""]

(* Mutant: the update fires the pickup-code trigger again *)
UpdateOrderStatus_Retrigger(c, id, st) ==
    /\ orders' = [o \in DOMAIN orders |->
                    IF o \in UpdateRows(auth[c], id) /\ UpdateError(auth[c], id, st) = ""
                    THEN [orders[o] EXCEPT !.status = st,
                                           !.pickup_code = LPAD(ToText(0), CodeWidth, 0)]
                    ELSE orders[o]]
    /\ events' = IF UpdateRows(auth[c], id) # {} /\ UpdateError(auth[c], id, st) = ""
                 THEN Published("UPDATE", id, orders[id].status,
                                [orders[id] EXCEPT !.status = st])
                 ELSE events
    /\ lastUpdate' = [client |-> c, id |-> id, status |-> st]

UpdateOrderStatus(c, id, st) ==
    /\ orders' = [o \in DOMAIN orders |->
                    IF o \in UpdateRows(auth[c], id) /\ UpdateError(auth[c], id, st) = ""
                    THEN [orders[o] EXCEPT !.status = st] ELSE orders[o]]
    /\ events' = IF UpdateRows(auth[c], id) # {} /\ UpdateError(auth[c], id, st) = ""
                 THEN Published("UPDATE", id, orders[id].status,
                                [orders[id] EXCEPT !.status = st])
                 ELSE events
    /\ lastUpdate' = [client |-> c, id |-> id, status |-> st]

----------------------------------------------------------------------------
(* Requests of any authenticated caller to the store's REST interface *)

ApiInsertOrder(a, row) ==
    /\ BeginInsert(a, row)
    /\ UNCHANGED <<auth, user_roles, menu_items, orders, order_items, lastUpdate, resp, sel>>
    /\ UNCHANGED <<pageVars, tabVars>>
    /\ UNCHANGED <<events, feedVars, hookVars, historyVars, dashVars, tabFeedVars>>

ApiInsertReturns(a) ==
    /\ FinishInsert(a)
    /\ resp' = [resp EXCEPT ![a] = InsertError(a)]
    /\ UNCHANGED sel
    /\ UNCHANGED <<pageVars, tabVars>>
    /\ UNCHANGED <<feedVars, hookVars, historyVars, dashVars, tabFeedVars>>

ApiUpdateOrder(a, id, st) ==
    /\ id \in DOMAIN orders
    /\ UpdateOrderStatus(a, id, st)
    /\ resp' = [resp EXCEPT ![a] = UpdateError(auth[a], id, st)]
    /\ UNCHANGED sel
    /\ UNCHANGED <<auth, user_roles, menu_items, order_items, ins>>
    /\ UNCHANGED <<pageVars, tabVars>>
    /\ UNCHANGED <<feedVars, hookVars, historyVars, dashVars, tabFeedVars>>

(* SELECT * FROM orders and SELECT * FROM order_items without a filter: the *)
(* caller gets the rows a SELECT policy lets it see                         *)
ApiSelect(a) ==
    /\ sel' = [sel EXCEPT ![a] =
                 [orders |-> {o \in DOMAIN orders :
                                 \/ StudentsCanViewOwnOrders(auth[a], orders[o])
                                 \/ VendorsCanViewOrders(auth[a], orders[o])},
                  order_items |-> {i \in order_items :
                                      UsersCanViewOrderItems(orders, auth[a], i)}]]
    /\ UNCHANGED <<auth, user_roles, menu_items, orders, order_items, ins, lastUpdate, resp>>
    /\ UNCHANGED <<pageVars, tabVars>>
    /\ UNCHANGED <<events, feedVars, hookVars, historyVars, dashVars, tabFeedVars>>

----------------------------------------------------------------------------
(* CanteenMenu page *)

(* useParams().id *)
pageCanteen(p) == "c1"

NoOrderData == [id |-> 0, pickup_code |-> NULL]
NoClosure == [cart |-> <<>>, orderData |-> NoOrderData]

(* fetchCanteenAndMenu: the menu items of the page's canteen *)
FetchedMenu(p) ==
    [m \in {i \in DOMAIN menu_items : menu_items[i].canteen_id = pageCanteen(p)}
        |-> menu_items[m].price]

FetchCanteenAndMenu(p) ==
    /\ ppc[p] = "mount"
    /\ menuItems' = [menuItems EXCEPT ![p] = FetchedMenu(p)]
    /\ ppc' = [ppc EXCEPT ![p] = "idle"]
    /\ UNCHANGED <<cart, placing, closure, pickupCode, showPickupDialog, ptoast>>
    /\ UNCHANGED <<storeVars, tabVars>>
    /\ UNCHANGED <<events, feedVars, hookVars, historyVars, dashVars, tabFeedVars>>

InCart(c, id) == \E k \in DOMAIN c : c[k].id = id

addToCartResult(prev, item) ==
    IF InCart(prev, item.id)
    THEN [k \in DOMAIN prev |->
            IF prev[k].id = item.id
            THEN [prev[k] EXCEPT !.quantity = prev[k].quantity + 1] ELSE prev[k]]
    ELSE Append(prev, [id |-> item.id, price |-> item.price, quantity |-> 1])

(* Mutant: the quantity is lowered whatever it is *)
removeFromCartResult_Lower(prev, itemId) ==
    [k \in DOMAIN prev |->
        IF prev[k].id = itemId
        THEN [prev[k] EXCEPT !.quantity = prev[k].quantity - 1] ELSE prev[k]]

removeFromCartResult(prev, itemId) ==
    IF \E k \in DOMAIN prev : prev[k].id = itemId /\ prev[k].quantity > 1
    THEN [k \in DOMAIN prev |->
            IF prev[k].id = itemId
            THEN [prev[k] EXCEPT !.quantity = prev[k].quantity - 1] ELSE prev[k]]
    ELSE SelectSeq(prev, LAMBDA i : i.id # itemId)

clearItemFromCartResult(prev, itemId) == SelectSeq(prev, LAMBDA i : i.id # itemId)

RECURSIVE totalAmount(_)
totalAmount(c) ==
    IF c = <<>> THEN 0
    ELSE totalAmount(SubSeq(c, 1, Len(c) - 1)) + c[Len(c)].price * c[Len(c)].quantity

PageUsable(p) == ppc[p] \in {"idle", "order", "items"}

CartFrame == UNCHANGED <<menuItems, placing, ppc, closure, pickupCode, showPickupDialog, ptoast>>

addToCart(p, id) ==
    /\ PageUsable(p)
    /\ id \in DOMAIN menuItems[p]
    /\ \A k \in DOMAIN cart[p] : cart[p][k].id = id => cart[p][k].quantity < MaxQuantity
    /\ cart' = [cart EXCEPT ![p] = addToCartResult(@, [id |-> id, price |-> menuItems[p][id]])]
    /\ CartFrame
    /\ UNCHANGED <<storeVars, tabVars>>
    /\ UNCHANGED <<events, feedVars, hookVars, historyVars, dashVars, tabFeedVars>>

removeFromCart(p, id) ==
    /\ PageUsable(p)
    /\ InCart(cart[p], id)
    /\ cart' = [cart EXCEPT ![p] = removeFromCartResult(@, id)]
    /\ CartFrame
    /\ UNCHANGED <<storeVars, tabVars>>
    /\ UNCHANGED <<events, feedVars, hookVars, historyVars, dashVars, tabFeedVars>>

clearItemFromCart(p, id) ==
    /\ PageUsable(p)
    /\ InCart(cart[p], id)
    /\ cart' = [cart EXCEPT ![p] = clearItemFromCartResult(@, id)]
    /\ CartFrame
    /\ UNCHANGED <<storeVars, tabVars>>
    /\ UNCHANGED <<events, feedVars, hookVars, historyVars, dashVars, tabFeedVars>>

(* placeOrder up to its first await: the insert into orders is sent *)
placeOrder(p) ==
    /\ ppc[p] = "idle"
    /\ ~placing[p]
    /\ cart[p] # <<>>
    /\ placing' = [placing EXCEPT ![p] = TRUE]
    /\ closure' = [closure EXCEPT ![p] = [cart |-> cart[p], orderData |-> NoOrderData]]
    /\ BeginInsert(p,
                   [student_id |-> auth[p], canteen_id |-> pageCanteen(p),
                    total_amount |-> totalAmount(cart[p]), status |-> "pending",
                    pickup_code |-> NULL])
    /\ ppc' = [ppc EXCEPT ![p] = "order"]
    /\ UNCHANGED <<menuItems, cart, pickupCode, showPickupDialog, ptoast>>
    /\ UNCHANGED <<auth, user_roles, menu_items, orders, order_items, lastUpdate, resp, sel>>
    /\ UNCHANGED tabVars
    /\ UNCHANGED <<events, feedVars, hookVars, historyVars, dashVars, tabFeedVars>>

(* the insert into orders returns; on success the line items are sent *)
placeOrderInserted(p) ==
    /\ ppc[p] = "order"
    /\ FinishInsert(p)
    /\ IF InsertError(p) # ""
       THEN /\ ptoast' = [ptoast EXCEPT ![p] = "error"]
            /\ placing' = [placing EXCEPT ![p] = FALSE]
            /\ closure' = [closure EXCEPT ![p] = NoClosure]
            /\ ppc' = [ppc EXCEPT ![p] = "idle"]
       ELSE /\ closure' = [closure EXCEPT ![p].orderData =
                              [id |-> Len(orders) + 1,
                               pickup_code |-> ins[p].new.pickup_code]]
            /\ ppc' = [ppc EXCEPT ![p] = "items"]
            /\ UNCHANGED <<ptoast, placing>>
    /\ UNCHANGED <<menuItems, cart, pickupCode, showPickupDialog>>
    /\ UNCHANGED <<resp, sel>>
    /\ UNCHANGED tabVars
    /\ UNCHANGED <<feedVars, hookVars, historyVars, dashVars, tabFeedVars>>

orderItems(p) ==
    {[order_id |-> closure[p].orderData.id, menu_item_id |-> closure[p].cart[k].id,
      quantity |-> closure[p].cart[k].quantity, price |-> closure[p].cart[k].price]
        : k \in DOMAIN closure[p].cart}

ItemsError(p) ==
    IF \E i \in orderItems(p) : ~StudentsCanCreateOrderItems(orders, auth[p], i)
    THEN "rls"
    ELSE IF \E i \in orderItems(p) : ~OrderItemsConstraints(orders, menu_items, i)
    THEN "constraint"
    ELSE ""

(* the insert into order_items returns; the rest of placeOrder runs *)
placeOrderItemsInserted(p) ==
    /\ ppc[p] = "items"
    /\ IF ItemsError(p) # ""
       THEN /\ ptoast' = [ptoast EXCEPT ![p] = "error"]
            /\ ppc' = [ppc EXCEPT ![p] = "idle"]
            /\ UNCHANGED <<order_items, pickupCode, showPickupDialog, cart>>
       ELSE /\ order_items' = order_items \cup orderItems(p)
            /\ pickupCode' = [pickupCode EXCEPT ![p] = closure[p].orderData.pickup_code]
            /\ showPickupDialog' = [showPickupDialog EXCEPT ![p] = TRUE]
            /\ ptoast' = [ptoast EXCEPT ![p] = "success"]
            /\ cart' = [cart EXCEPT ![p] = <<>>]
            /\ ppc' = [ppc EXCEPT ![p] = "dialog"]
    /\ placing' = [placing EXCEPT ![p] = FALSE]
    /\ UNCHANGED <<menuItems, closure>>
    /\ UNCHANGED <<auth, user_roles, menu_items, orders, ins, lastUpdate, resp, sel>>
    /\ UNCHANGED tabVars
    /\ UNCHANGED <<events, feedVars, hookVars, historyVars, dashVars, tabFeedVars>>

(* Mutant: the catch block shows the toast and sends the insert again *)
placeOrderFailed_Retry(p) ==
    /\ ppc[p] = "order"
    /\ ins' = [ins EXCEPT ![p] = [@ EXCEPT !.phase = "loop", !.code = NULL]]
    /\ ptoast' = [ptoast EXCEPT ![p] = "error"]
    /\ UNCHANGED <<menuItems, cart, placing, ppc, closure, pickupCode, showPickupDialog>>
    /\ UNCHANGED <<auth, user_roles, menu_items, orders, order_items, lastUpdate, resp, sel>>
    /\ UNCHANGED tabVars
    /\ UNCHANGED <<events, feedVars, hookVars, historyVars, dashVars, tabFeedVars>>

(* the insert into orders returns an error the rows do not explain (the       *)
(* connection is lost, the statement is cancelled): nothing is committed,     *)
(* the catch block shows the toast and the finally block clears placing       *)
placeOrderFailed(p) ==
    /\ ppc[p] = "order"
    /\ ins' = [ins EXCEPT ![p] = NoInsert]
    /\ ptoast' = [ptoast EXCEPT ![p] = "error"]
    /\ placing' = [placing EXCEPT ![p] = FALSE]
    /\ closure' = [closure EXCEPT ![p] = NoClosure]
    /\ ppc' = [ppc EXCEPT ![p] = "idle"]
    /\ UNCHANGED <<menuItems, cart, pickupCode, showPickupDialog>>
    /\ UNCHANGED <<auth, user_roles, menu_items, orders, order_items, lastUpdate, resp, sel>>
    /\ UNCHANGED tabVars
    /\ UNCHANGED <<events, feedVars, hookVars, historyVars, dashVars, tabFeedVars>>

(* the insert into order_items returns such an error *)
placeOrderItemsFailed(p) ==
    /\ ppc[p] = "items"
    /\ ptoast' = [ptoast EXCEPT ![p] = "error"]
    /\ placing' = [placing EXCEPT ![p] = FALSE]
    /\ ppc' = [ppc EXCEPT ![p] = "idle"]
    /\ UNCHANGED <<menuItems, cart, closure, pickupCode, showPickupDialog>>
    /\ UNCHANGED <<storeVars, tabVars>>
    /\ UNCHANGED <<events, feedVars, hookVars, historyVars, dashVars, tabFeedVars>>

(* "Got it!": the dialog closes and the page is left; a later visit mounts it anew *)
closePickupDialog(p) ==
    /\ ppc[p] = "dialog"
    /\ showPickupDialog[p]
    /\ showPickupDialog' = [showPickupDialog EXCEPT ![p] = FALSE]
    /\ pickupCode' = [pickupCode EXCEPT ![p] = NULL]
    /\ closure' = [closure EXCEPT ![p] = NoClosure]
    /\ menuItems' = [menuItems EXCEPT ![p] = <<>>]
    /\ ptoast' = [ptoast EXCEPT ![p] = "none"]
    /\ ppc' = [ppc EXCEPT ![p] = "mount"]
    /\ UNCHANGED <<cart, placing>>
    /\ UNCHANGED <<storeVars, tabVars>>
    /\ UNCHANGED <<events, feedVars, hookVars, historyVars, dashVars, tabFeedVars>>

----------------------------------------------------------------------------
(* MenuManagement page: handleDelete.  The delete cascades to the line items *)
(* that reference the menu item.                                             *)

DeletedMenuItems(uid, itemId) ==
    {m \in DOMAIN menu_items : m = itemId /\ VendorsCanDeleteMenuItems(uid, menu_items[m])}

handleDelete(uid, itemId) ==
    /\ itemId \in DOMAIN menu_items
    /\ menu_items' = [m \in DOMAIN menu_items \ DeletedMenuItems(uid, itemId) |-> menu_items[m]]
    /\ order_items' = {i \in order_items : i.menu_item_id \notin DeletedMenuItems(uid, itemId)}
    /\ UNCHANGED <<auth, user_roles, orders, ins, lastUpdate, resp, sel>>
    /\ UNCHANGED <<pageVars, tabVars>>
    /\ UNCHANGED <<events, feedVars, hookVars, historyVars, dashVars, tabFeedVars>>

----------------------------------------------------------------------------
(* VendorDashboard *)

(* the canteen of .eq("vendor_id", user.id).limit(1).single() *)
CanteenOf(uid) == CHOOSE c \in DOMAIN canteens : canteens[c].vendor_id = uid

(* Mutant: the query returns the orders of every canteen *)
FetchedOrders_All(uid) == [o \in DOMAIN orders |-> orders[o].status]

(* the orders of .eq("canteen_id", canteenData.id), as id -> status *)
FetchedOrders(uid) ==
    [o \in {i \in DOMAIN orders : orders[i].canteen_id = CanteenOf(uid)} |-> orders[o].status]

(* the fetch of the mount effect returns *)
fetchCanteenAndOrders(t) ==
    /\ vpc[t] = "mount"
    /\ vorders' = [vorders EXCEPT ![t] = FetchedOrders(auth[t])]
    /\ vpc' = [vpc EXCEPT ![t] = "idle"]
    /\ UNCHANGED <<updatingOrderId, vtoast>>
    /\ UNCHANGED <<storeVars, pageVars>>
    /\ vloading' = [vloading EXCEPT ![t] = FALSE]
    /\ UNCHANGED <<vrefetch, vinflight, events, feedVars, hookVars, historyVars, dashVars>>

(* Mutant: the handler does not test updatingOrderId; only the button of the *)
(* order being updated is disabled                                           *)
markOrder_NoGuard(t, orderId, st) ==
    /\ vpc[t] \in {"idle", "ready", "completed"}
    /\ updatingOrderId[t] # orderId
    /\ updatingOrderId' = [updatingOrderId EXCEPT ![t] = orderId]
    /\ vpc' = [vpc EXCEPT ![t] = st]
    /\ UNCHANGED <<vorders, vtoast>>
    /\ UNCHANGED <<storeVars, pageVars>>
    /\ vinflight' = [vinflight EXCEPT ![t] = @ + 1]
    /\ UNCHANGED <<vrefetch, vloading, events, feedVars, hookVars, historyVars, dashVars>>

(* markOrderReady / markOrderCompleted up to the await of the update *)
markOrder(t, orderId, st) ==
    /\ vpc[t] = "idle"
    /\ updatingOrderId[t] = 0
    /\ updatingOrderId' = [updatingOrderId EXCEPT ![t] = orderId]
    /\ vpc' = [vpc EXCEPT ![t] = st]
    /\ UNCHANGED <<vorders, vtoast>>
    /\ UNCHANGED <<storeVars, pageVars>>
    /\ vinflight' = [vinflight EXCEPT ![t] = @ + 1]
    /\ UNCHANGED <<vrefetch, vloading, events, feedVars, hookVars, historyVars, dashVars>>

markOrderReady(t, orderId) == markOrder(t, orderId, "ready")

markOrderCompleted(t, orderId) == markOrder(t, orderId, "completed")

(* pendingOrders / readyOrders: the orders the dashboard shows a button for *)
pendingOrders(t) == {o \in DOMAIN vorders[t] : vorders[t][o] = "pending"}
readyOrders(t) == {o \in DOMAIN vorders[t] : vorders[t][o] = "ready"}

(* the button "Mark as Ready" of a pending order, "Mark as Completed" of a ready one *)
clickMarkAsReady(t, orderId) ==
    /\ orderId \in pendingOrders(t)
    /\ updatingOrderId[t] # orderId
    /\ markOrderReady(t, orderId)

clickMarkAsCompleted(t, orderId) ==
    /\ orderId \in readyOrders(t)
    /\ updatingOrderId[t] # orderId
    /\ markOrderCompleted(t, orderId)

(* the toast shown once the update has returned *)
UpdateToast(error) == IF error # "" THEN "error" ELSE "success"

(* the update returns: error toast, or success toast and the re-fetch is sent *)
markOrderUpdated(t) ==
    /\ vpc[t] \in {"ready", "completed"}
    /\ UpdateOrderStatus(t, updatingOrderId[t], vpc[t])
    /\ vtoast' = [vtoast EXCEPT ![t] = UpdateToast(UpdateError(auth[t], updatingOrderId[t], vpc[t]))]
    /\ IF UpdateError(auth[t], updatingOrderId[t], vpc[t]) # ""
       THEN /\ updatingOrderId' = [updatingOrderId EXCEPT ![t] = 0]
            /\ vpc' = [vpc EXCEPT ![t] = "idle"]
       ELSE /\ vpc' = [vpc EXCEPT ![t] = "fetch"]
            /\ UNCHANGED updatingOrderId
    /\ UNCHANGED vorders
    /\ UNCHANGED <<auth, user_roles, menu_items, order_items, ins, resp, sel>>
    /\ UNCHANGED pageVars
    /\ vinflight' = [vinflight EXCEPT ![t] = @ - 1]
    /\ UNCHANGED <<vrefetch, vloading, feedVars, hookVars, historyVars, dashVars>>

(* the re-fetch returns; finally updatingOrderId is cleared *)
markOrderFetched(t) ==
    /\ vpc[t] = "fetch"
    /\ vorders' = [vorders EXCEPT ![t] = FetchedOrders(auth[t])]
    /\ updatingOrderId' = [updatingOrderId EXCEPT ![t] = 0]
    /\ vpc' = [vpc EXCEPT ![t] = "idle"]
    /\ UNCHANGED vtoast
    /\ UNCHANGED <<storeVars, pageVars>>
    /\ vloading' = [vloading EXCEPT ![t] = FALSE]
    /\ UNCHANGED <<vrefetch, vinflight, events, feedVars, hookVars, historyVars, dashVars>>

(* Mutant: the error path of the handler without its finally block *)
markOrderFailed_NoFinally(t) ==
    /\ vpc[t] \in {"ready", "completed"}
    /\ vtoast' = [vtoast EXCEPT ![t] = "error"]
    /\ vpc' = [vpc EXCEPT ![t] = "idle"]
    /\ vinflight' = [vinflight EXCEPT ![t] = @ - 1]
    /\ UNCHANGED <<vorders, updatingOrderId>>
    /\ UNCHANGED <<storeVars, pageVars>>
    /\ UNCHANGED <<vrefetch, vloading, events, feedVars, hookVars, historyVars, dashVars>>

(* the update returns an error the rows do not explain: no row changes, the   *)
(* catch block shows the toast and the finally block clears updatingOrderId   *)
markOrderFailed(t) ==
    /\ vpc[t] \in {"ready", "completed"}
    /\ vtoast' = [vtoast EXCEPT ![t] = "error"]
    /\ updatingOrderId' = [updatingOrderId EXCEPT ![t] = 0]
    /\ vpc' = [vpc EXCEPT ![t] = "idle"]
    /\ vinflight' = [vinflight EXCEPT ![t] = @ - 1]
    /\ UNCHANGED vorders
    /\ UNCHANGED <<storeVars, pageVars>>
    /\ UNCHANGED <<vrefetch, vloading, events, feedVars, hookVars, historyVars, dashVars>>

(* a query of fetchCanteenAndOrders returns an error: its catch block shows   *)
(* the toast and its finally block clears loading; when markOrderReady /      *)
(* markOrderCompleted awaited it, their finally block clears updatingOrderId  *)
fetchCanteenAndOrdersFailed(t) ==
    /\ vpc[t] \in {"mount", "fetch"}
    /\ vtoast' = [vtoast EXCEPT ![t] = "error"]
    /\ vloading' = [vloading EXCEPT ![t] = FALSE]
    /\ updatingOrderId' = [updatingOrderId EXCEPT ![t] = 0]
    /\ vpc' = [vpc EXCEPT ![t] = "idle"]
    /\ UNCHANGED vorders
    /\ UNCHANGED <<storeVars, pageVars>>
    /\ UNCHANGED <<vrefetch, vinflight, events, feedVars, hookVars, historyVars, dashVars>>

(* the handler of subscribeToOrders runs on an INSERT event: the toast is     *)
(* shown and fetchCanteenAndOrders is called                                  *)
tabOrderInserted(t) ==
    /\ t \in channels
    /\ events[t] # <<>>
    /\ events' = [events EXCEPT ![t] = Tail(@)]
    /\ vtoast' = [vtoast EXCEPT ![t] = "new"]
    /\ vrefetch' = [vrefetch EXCEPT ![t] = TRUE]
    /\ UNCHANGED <<vorders, updatingOrderId, vpc, vloading, vinflight>>
    /\ UNCHANGED <<storeVars, pageVars, feedVars, hookVars, historyVars, dashVars>>

(* the fetch the handler started returns; an unmounted component keeps no state *)
tabRefetched(t) ==
    /\ vrefetch[t]
    /\ vrefetch' = [vrefetch EXCEPT ![t] = FALSE]
    /\ vorders' = [vorders EXCEPT ![t] = IF mounted[t] THEN FetchedOrders(auth[t]) ELSE @]
    /\ vloading' = [vloading EXCEPT ![t] = FALSE]
    /\ UNCHANGED <<updatingOrderId, vpc, vtoast, vinflight>>
    /\ UNCHANGED <<storeVars, pageVars, events, feedVars, hookVars, historyVars, dashVars>>

----------------------------------------------------------------------------
(* MenuManagement page: handleSubmit.  A price is typed as text, a sequence  *)
(* of characters; prices are whole currency units.                           *)

Digits == <<"0", "1", "2", "3", "4", "5", "6", "7", "8", "9">>

(* the value of <input type="number">: the typed text if it is a number,     *)
(* the empty string otherwise                                                *)
NumberInputValue(typed) ==
    LET body == IF typed # <<>> /\ Head(typed) = "-" THEN Tail(typed) ELSE typed
    IN  IF body # <<>> /\ \A k \in DOMAIN body : \E d \in DOMAIN Digits : Digits[d] = body[k]
        THEN typed ELSE <<>>

(* parseFloat: an optional sign and the longest run of digits after it; NaN  *)
(* when there is no digit                                                    *)
parseFloat(text) ==
    LET neg == text # <<>> /\ Head(text) = "-"
        body == IF neg THEN Tail(text) ELSE text
        IsDigit(c) == \E d \in DOMAIN Digits : Digits[d] = c
        run == CHOOSE n \in 0..Len(body) :
                  /\ \A k \in 1..n : IsDigit(body[k])
                  /\ n < Len(body) => ~IsDigit(body[n + 1])
        DigitValue(c) == (CHOOSE d \in DOMAIN Digits : Digits[d] = c) - 1
        RECURSIVE Value(_)
        Value(n) == IF n = 0 THEN 0 ELSE Value(n - 1) * Len(Digits) + DigitValue(body[n])
    IN  IF run = 0 THEN [nan |-> TRUE, value |-> 0]
        ELSE [nan |-> FALSE, value |-> IF neg THEN 0 - Value(run) ELSE Value(run)]

(* the ids the store gives to new menu items *)
AddedMenuIds == {"C"}

(* "Vendors can create / update menu items for own canteens" *)
VendorsCanWriteMenuItems(uid, item) == OwnsCanteen(uid, item.canteen_id)

(* price DECIMAL(10,2) NOT NULL: NaN is sent as null; the column has no CHECK *)
MenuItemsConstraints(price) == ~price.nan

(* Mutant: saving an edited price also rewrites the price of the line items *)
(* that reference the menu item                                              *)
handleSubmit_Reprice(uid, editingItem, typed) ==
    LET value == NumberInputValue(typed)
        price == parseFloat(value)
    IN  /\ value # <<>>
        /\ editingItem \in DOMAIN menu_items
        /\ menu_items[editingItem].canteen_id = CanteenOf(uid)
        /\ ~price.nan
        /\ menu_items' = [menu_items EXCEPT ![editingItem].price = price.value]
        /\ order_items' = {IF i.menu_item_id = editingItem
                            THEN [i EXCEPT !.price = price.value] ELSE i : i \in order_items}
        /\ UNCHANGED <<auth, user_roles, orders, ins, lastUpdate, resp, sel>>
        /\ UNCHANGED <<pageVars, tabVars>>
        /\ UNCHANGED <<events, feedVars, hookVars, historyVars, dashVars, tabFeedVars>>

(* the form is submitted: the browser holds back a form whose required price  *)
(* is empty; handleSubmit updates the item being edited or inserts a new one  *)
handleSubmit(uid, editingItem, typed) ==
    LET value == NumberInputValue(typed)
        itemData == [canteen_id |-> CanteenOf(uid), price |-> parseFloat(value)]
        row == [canteen_id |-> itemData.canteen_id, price |-> itemData.price.value]
        accepted == /\ VendorsCanWriteMenuItems(uid, itemData)
                    /\ MenuItemsConstraints(itemData.price)
    IN  /\ value # <<>>
        /\ IF editingItem # ""
           THEN /\ editingItem \in DOMAIN menu_items
                /\ menu_items[editingItem].canteen_id = CanteenOf(uid)
                /\ menu_items' = IF accepted
                                 THEN [menu_items EXCEPT ![editingItem] = row]
                                 ELSE menu_items
           ELSE /\ AddedMenuIds \ DOMAIN menu_items # {}
                /\ LET id == CHOOSE m \in AddedMenuIds : m \notin DOMAIN menu_items
                   IN  menu_items' = IF accepted
                                     THEN [m \in DOMAIN menu_items \cup {id} |->
                                              IF m = id THEN row ELSE menu_items[m]]
                                     ELSE menu_items
        /\ UNCHANGED <<auth, user_roles, orders, order_items, ins, lastUpdate, resp, sel>>
        /\ UNCHANGED <<pageVars, tabVars>>
        /\ UNCHANGED <<events, feedVars, hookVars, historyVars, dashVars, tabFeedVars>>

----------------------------------------------------------------------------
(* StudentDashboard *)

FetchLimit == 10

(* fetchOrders: .eq("student_id", user.id).order("created_at", desc).limit(10), *)
(* as id -> status                                                              *)
FetchedStudentOrders(uid) ==
    LET mine == {i \in DOMAIN orders : orders[i].student_id = uid}
        shown == {i \in mine : Cardinality({j \in mine : j > i}) < FetchLimit}
    IN  [o \in shown |-> orders[o].status]

(* the mount effects once the session is known: notificationsEnabled is set   *)
(* from the browser's permission, fetchOrders is sent and the channel is      *)
(* registered with a handler that holds this render's notificationsEnabled    *)
mountStudentDashboard(d) ==
    /\ ~mounted[d]
    /\ d \notin channels
    /\ mounted' = [mounted EXCEPT ![d] = TRUE]
    /\ notificationsEnabled' = [notificationsEnabled EXCEPT ![d] = permission[d] = "granted"]
    /\ handlerEnabled' = [handlerEnabled EXCEPT ![d] = permission[d] = "granted"]
    /\ sreq' = [sreq EXCEPT ![d] = @ + 1]
    /\ channels' = channels \cup {d}
    /\ UNCHANGED <<replica_identity, hookVars, historyVars, permission, sorders, sresp, sawait, lastReady>>
    /\ UNCHANGED <<storeVars, pageVars, tabVars, tabFeedVars, events>>

(* handleNotificationToggle with notifications off: the browser asks the user *)
(* unless the permission is already decided                                   *)
handleNotificationToggle(d) ==
    /\ mounted[d]
    /\ ~notificationsEnabled[d]
    /\ \E answer \in {"granted", "denied"} :
          /\ permission[d] # "default" => answer = permission[d]
          /\ permission' = [permission EXCEPT ![d] = answer]
          /\ notificationsEnabled' = [notificationsEnabled EXCEPT ![d] = answer = "granted"]
    /\ UNCHANGED <<handlerEnabled, sorders, sreq, sresp, sawait, lastReady>>
    /\ UNCHANGED <<storeVars, pageVars, tabVars, tabFeedVars, events, feedVars, hookVars, historyVars>>

(* the channel's handler runs on an UPDATE event, up to its first await.      *)
(* lastReady records, for the properties, what the handler did with a change  *)
(* that took the order from pending to ready.                                 *)
orderUpdated(d) ==
    /\ d \in channels
    /\ events[d] # <<>>
    /\ LET e == Head(events[d])
       IN  /\ events' = [events EXCEPT ![d] = Tail(@)]
           /\ IF e.old = "pending" /\ e.new = "ready"
              THEN /\ sawait' = [sawait EXCEPT ![d] = @ \cup {e.id}]
                   /\ UNCHANGED <<sreq, lastReady>>
              ELSE /\ sreq' = [sreq EXCEPT ![d] = IF e.new # e.old THEN @ + 1 ELSE @]
                   /\ lastReady' = [lastReady EXCEPT ![d] =
                          IF e.was = "pending" /\ e.new = "ready"
                          THEN [id |-> e.id, done |-> TRUE, toast |-> FALSE,
                                notified |-> FALSE, granted |-> permission[d] = "granted"]
                          ELSE @]
                   /\ UNCHANGED sawait
    /\ UNCHANGED <<permission, notificationsEnabled, handlerEnabled, sorders, sresp>>
    /\ UNCHANGED <<storeVars, pageVars, tabVars, tabFeedVars, feedVars, hookVars, historyVars>>

(* the canteen's name has arrived: the system notification if the handler's   *)
(* notificationsEnabled is set (showNotification looks at the permission),    *)
(* the toast, and fetchOrders                                                 *)
canteenFetched(d, o) ==
    /\ o \in sawait[d]
    /\ sawait' = [sawait EXCEPT ![d] = @ \ {o}]
    /\ lastReady' = [lastReady EXCEPT ![d] =
                       [id |-> o, done |-> TRUE, toast |-> TRUE,
                        notified |-> handlerEnabled[d] /\ permission[d] = "granted",
                        granted |-> permission[d] = "granted"]]
    /\ sreq' = [sreq EXCEPT ![d] = @ + 1]
    /\ UNCHANGED <<permission, notificationsEnabled, handlerEnabled, sorders, sresp>>
    /\ UNCHANGED <<storeVars, pageVars, tabVars, tabFeedVars, events, feedVars, hookVars, historyVars>>

(* the store reads the rows for a fetchOrders request *)
fetchOrdersRead(d) ==
    /\ sreq[d] > 0
    /\ sreq' = [sreq EXCEPT ![d] = @ - 1]
    /\ sresp' = [sresp EXCEPT ![d] = @ \cup {FetchedStudentOrders(auth[d])}]
    /\ UNCHANGED <<permission, notificationsEnabled, handlerEnabled, sorders, sawait, lastReady>>
    /\ UNCHANGED <<storeVars, pageVars, tabVars, tabFeedVars, events, feedVars, hookVars, historyVars>>

(* a response of fetchOrders arrives: setOrders(data) *)
fetchOrdersReturned(d) ==
    /\ \E r \in sresp[d] :
          /\ sresp' = [sresp EXCEPT ![d] = @ \ {r}]
          /\ sorders' = [sorders EXCEPT ![d] = IF mounted[d] THEN r ELSE @]
    /\ UNCHANGED <<permission, notificationsEnabled, handlerEnabled, sreq, sawait, lastReady>>
    /\ UNCHANGED <<storeVars, pageVars, tabVars, tabFeedVars, events, feedVars, hookVars, historyVars>>

(* the dashboard is left.  The mount effect returns nothing: the function     *)
(* subscribeToOrderUpdates / subscribeToOrders returns is dropped, so no      *)
(* cleanup runs.                                                              *)
unmountDashboard(c) ==
    /\ mounted[c]
    /\ mounted' = [mounted EXCEPT ![c] = FALSE]
    /\ UNCHANGED <<channels, replica_identity, hookVars, historyVars>>
    /\ UNCHANGED <<storeVars, pageVars, tabVars, tabFeedVars, events, dashVars>>

----------------------------------------------------------------------------
(* useAuth *)

(* JavaScript's null, for user, session and userRole, and auth.uid() of a    *)
(* request sent without a session                                            *)
null == "null"

(* a person who has no account yet *)
Registrants == {"n1"}
Roles == {"student", "vendor"}
Paths == {"/", "/auth", "/student", "/vendor"}

Idle == [at |-> "", userId |-> null, role |-> null]
NothingReturned == [call |-> "", error |-> null, userId |-> null, role |-> null]

(* policy "Users can view own role": USING *)
UsersCanViewOwnRole(uid, row) == uid = row[1]

(* policy "Users can insert own role": WITH CHECK *)
UsersCanInsertOwnRole(uid, row) == uid = row[1]

(* UNIQUE(user_id, role) *)
UserRolesConstraints(roles, row) == row \notin roles

(* INSERT INTO user_roles through the REST interface *)
ApiInsertRole(a, user_id, role) ==
    LET row == <<user_id, role>>
        error == IF ~UsersCanInsertOwnRole(auth[a], row) THEN "rls"
                 ELSE IF ~UserRolesConstraints(user_roles, row) THEN "constraint"
                 ELSE ""
    IN  /\ user_roles' = IF error = "" THEN user_roles \cup {row} ELSE user_roles
        /\ resp' = [resp EXCEPT ![a] = error]
        /\ UNCHANGED <<auth, menu_items, orders, order_items, ins, lastUpdate, sel>>
        /\ UNCHANGED <<pageVars, tabVars, tabFeedVars, events, feedVars, dashVars, hookVars, historyVars>>

(* select("role").eq("user_id", userId).single(): the rows the caller may    *)
(* see; single() is an error unless there is exactly one                     *)
RoleRows(uid, userId) ==
    {row \in user_roles : row[1] = userId /\ UsersCanViewOwnRole(uid, row)}

(* a call of fetchUserRole that has not returned; final: setLoading(false)   *)
(* is chained to it                                                          *)
FetchUserRole(userId, final) == [kind |-> "fetchUserRole", userId |-> userId, final |-> final]
GetSession == [kind |-> "getSession", userId |-> null, final |-> FALSE]

(* a page that calls useAuth mounts at location to: the state is the         *)
(* useState initial values and the effect calls getSession                   *)
mountUseAuth(to) ==
    /\ apc = Idle
    /\ path' = to
    /\ user' = null /\ session' = null /\ userRole' = null /\ loading' = TRUE
    /\ pending' = {GetSession}
    /\ UNCHANGED <<authSession, apc, returned>>
    /\ UNCHANGED <<storeVars, pageVars, tabVars, tabFeedVars, events, feedVars, dashVars, historyVars>>

(* getSession().then(...) *)
getSessionReturned ==
    /\ GetSession \in pending
    /\ session' = authSession /\ user' = authSession
    /\ IF authSession # null
       THEN /\ pending' = (pending \ {GetSession}) \cup {FetchUserRole(authSession, TRUE)}
            /\ UNCHANGED loading
       ELSE /\ pending' = pending \ {GetSession}
            /\ loading' = FALSE
    /\ UNCHANGED <<userRole, authSession, path, apc, returned>>
    /\ UNCHANGED <<storeVars, pageVars, tabVars, tabFeedVars, events, feedVars, dashVars, historyVars>>

(* the callback given to onAuthStateChange, called with session s; the       *)
(* setTimeout callback is kept as a call of fetchUserRole                    *)
onAuthStateChange(s) ==
    /\ session' = s /\ user' = s
    /\ IF s # null
       THEN /\ pending' = pending \cup {FetchUserRole(s, FALSE)}
            /\ UNCHANGED userRole
       ELSE /\ userRole' = null
            /\ UNCHANGED pending

(* the auth client announces the session it holds (INITIAL_SESSION,          *)
(* TOKEN_REFRESHED, a change made in another tab)                            *)
authStateChanged ==
    /\ onAuthStateChange(authSession)
    /\ UNCHANGED <<loading, authSession, path, apc, returned>>
    /\ UNCHANGED <<storeVars, pageVars, tabVars, tabFeedVars, events, feedVars, dashVars, historyVars>>

(* signIn succeeds for u: the client stores the session and announces        *)
(* SIGNED_IN                                                                 *)
signIn(u) ==
    /\ apc = Idle
    /\ authSession' = u
    /\ onAuthStateChange(u)
    /\ returned' = [call |-> "signIn", error |-> null, userId |-> u, role |-> null]
    /\ UNCHANGED <<loading, path, apc>>
    /\ UNCHANGED <<storeVars, pageVars, tabVars, tabFeedVars, events, feedVars, dashVars, historyVars>>

(* fetchUserRole returns: with one row setUserRole(data.role); with an error *)
(* (no row, several rows, or failed: the request did not get through) the    *)
(* catch block leaves userRole as it is                                      *)
fetchUserRoleReturned(c, failed) ==
    /\ c \in pending /\ c.kind = "fetchUserRole"
    /\ LET rows == RoleRows(authSession, c.userId)
       IN  userRole' = IF ~failed /\ Cardinality(rows) = 1
                       THEN (CHOOSE row \in rows : TRUE)[2]
                       ELSE userRole
    /\ loading' = IF c.final THEN FALSE ELSE loading
    /\ pending' = pending \ {c}
    /\ UNCHANGED <<user, session, authSession, path, apc, returned>>
    /\ UNCHANGED <<storeVars, pageVars, tabVars, tabFeedVars, events, feedVars, dashVars, historyVars>>

(* the effect of StudentDashboard / VendorDashboard that guards the page *)
roleGuard ==
    /\ path \in {"/student", "/vendor"}
    /\ ~loading
    /\ user = null \/ userRole # (IF path = "/student" THEN "student" ELSE "vendor")
    /\ path' = "/auth"
    /\ UNCHANGED <<user, session, userRole, loading, authSession, pending, apc, returned>>
    /\ UNCHANGED <<storeVars, pageVars, tabVars, tabFeedVars, events, feedVars, dashVars, historyVars>>

(* signUp(email, password, name, role) is called by a person without an      *)
(* account: auth.signUp is sent                                              *)
signUp(u, role) ==
    /\ apc = Idle
    /\ \A row \in user_roles : row[1] # u
    /\ apc' = [at |-> "auth.signUp", userId |-> u, role |-> role]
    /\ UNCHANGED <<user, session, userRole, loading, authSession, pending, path, returned>>
    /\ UNCHANGED <<storeVars, pageVars, tabVars, tabFeedVars, events, feedVars, dashVars, historyVars>>

(* auth.signUp returns.  outcome "error": the catch block returns {error}.   *)
(* "session": the account is created and signed in, SIGNED_IN is announced.  *)
(* "user": the account is created and waits for the e-mail confirmation, so  *)
(* data.user is set and there is no session.                                 *)
signUpReturned(outcome) ==
    /\ apc.at = "auth.signUp"
    /\ IF outcome = "error"
       THEN /\ apc' = Idle
            /\ returned' = [call |-> "signUp", error |-> "error",
                            userId |-> apc.userId, role |-> apc.role]
            /\ UNCHANGED <<user, session, userRole, pending, authSession>>
       ELSE /\ apc' = [apc EXCEPT !.at = "user_roles.insert"]
            /\ UNCHANGED returned
            /\ IF outcome = "session"
               THEN authSession' = apc.userId /\ onAuthStateChange(apc.userId)
               ELSE UNCHANGED <<user, session, userRole, pending, authSession>>
    /\ UNCHANGED <<loading, path>>
    /\ UNCHANGED <<storeVars, pageVars, tabVars, tabFeedVars, events, feedVars, dashVars, historyVars>>

(* Mutant: the error of the insert is thrown to the catch block *)
signUpRoleInserted_Checked(failed) ==
    /\ apc.at = "user_roles.insert"
    /\ LET row == <<apc.userId, apc.role>>
           error == failed \/ ~UsersCanInsertOwnRole(authSession, row)
                           \/ ~UserRolesConstraints(user_roles, row)
       IN  /\ user_roles' = IF error THEN user_roles ELSE user_roles \cup {row}
           /\ returned' = [call |-> "signUp", error |-> IF error THEN "error" ELSE null,
                           userId |-> apc.userId, role |-> apc.role]
    /\ apc' = Idle
    /\ UNCHANGED <<user, session, userRole, loading, authSession, pending, path>>
    /\ UNCHANGED <<auth, menu_items, orders, order_items, ins, lastUpdate, resp, sel>>
    /\ UNCHANGED <<pageVars, tabVars, tabFeedVars, events, feedVars, dashVars, historyVars>>

(* the insert into user_roles returns (failed: the request did not get       *)
(* through); its result is not looked at: the toast is shown and             *)
(* {error: null} is returned                                                 *)
signUpRoleInserted(failed) ==
    /\ apc.at = "user_roles.insert"
    /\ LET row == <<apc.userId, apc.role>>
           error == failed \/ ~UsersCanInsertOwnRole(authSession, row)
                           \/ ~UserRolesConstraints(user_roles, row)
       IN  user_roles' = IF error THEN user_roles ELSE user_roles \cup {row}
    /\ returned' = [call |-> "signUp", error |-> null,
                    userId |-> apc.userId, role |-> apc.role]
    /\ apc' = Idle
    /\ UNCHANGED <<user, session, userRole, loading, authSession, pending, path>>
    /\ UNCHANGED <<auth, menu_items, orders, order_items, ins, lastUpdate, resp, sel>>
    /\ UNCHANGED <<pageVars, tabVars, tabFeedVars, events, feedVars, dashVars, historyVars>>

(* signOut is called: auth.signOut is sent *)
signOut ==
    /\ apc = Idle
    /\ apc' = [Idle EXCEPT !.at = "auth.signOut"]
    /\ UNCHANGED <<user, session, userRole, loading, authSession, pending, path, returned>>
    /\ UNCHANGED <<storeVars, pageVars, tabVars, tabFeedVars, events, feedVars, dashVars, historyVars>>

SignOutOutcomes == {"", "Session from session_id claim in JWT does not exist", "other"}

(* Mutant: an error other than the missing session leaves the state alone *)
signOutReturned_Throw(error) ==
    /\ apc.at = "auth.signOut"
    /\ IF error = "other"
       THEN UNCHANGED <<user, session, userRole, path, authSession>>
       ELSE /\ userRole' = null /\ session' = null /\ user' = null
            /\ path' = "/"
            /\ authSession' = null
    /\ returned' = [call |-> "signOut", error |-> IF error = "other" THEN error ELSE null,
                    userId |-> null, role |-> null]
    /\ apc' = Idle
    /\ UNCHANGED <<loading, pending>>
    /\ UNCHANGED <<storeVars, pageVars, tabVars, tabFeedVars, events, feedVars, dashVars, historyVars>>

(* auth.signOut returns with error ("" = none): the state is cleared and     *)
(* navigate("/") is called in the try block or in the catch block.  The auth *)
(* client drops its session when the call succeeds; after an error it may    *)
(* still hold it.                                                            *)
signOutReturned(error) ==
    /\ apc.at = "auth.signOut"
    /\ userRole' = null /\ session' = null /\ user' = null
    /\ path' = "/"
    /\ returned' = [call |-> "signOut", error |-> IF error = "other" THEN error ELSE null,
                    userId |-> null, role |-> null]
    /\ authSession' \in IF error = "" THEN {null} ELSE {null, authSession}
    /\ apc' = Idle
    /\ UNCHANGED <<loading, pending>>
    /\ UNCHANGED <<storeVars, pageVars, tabVars, tabFeedVars, events, feedVars, dashVars, historyVars>>

----------------------------------------------------------------------------
(* OrderHistory *)

(* created_at is an instant; InstantsPerDay of them fall on one day *)
MaxInstant == 3
InstantsPerDay == 2
MaxHistory == 2

(* format(new Date(order.created_at), "yyyy-MM-dd"): the text of the day *)
format(created_at) == ToText(created_at \div InstantsPerDay)

Dates == {format(t) : t \in 0..MaxInstant}

(* what fetchOrders can return: the student's orders, newest first *)
HistoryRows ==
    [id : 1..MaxHistory, status : Statuses, canteen_id : CanteenIds,
     created_at : 0..MaxInstant]
Histories ==
    {h \in UNION {[1..n -> HistoryRows] : n \in 0..MaxHistory} :
        /\ \A k \in DOMAIN h : h[k].id = k
        /\ \A k \in DOMAIN h : k > 1 => h[k - 1].created_at >= h[k].created_at}

applyFilters(ords, status, canteen, date) ==
    LET ByStatus(order) == order.status = status
        ByCanteen(order) == \E k \in DOMAIN ords : ords[k].id = order.id
        ByDate(order) == format(order.created_at) = date
        filtered1 == IF status # "all" THEN SelectSeq(ords, ByStatus) ELSE ords
        filtered2 == IF canteen # "all" THEN SelectSeq(filtered1, ByCanteen) ELSE filtered1
    IN  IF date # <<>> THEN SelectSeq(filtered2, ByDate) ELSE filtered2

(* fetchOrders returns data: setOrders, setFilteredOrders and then the       *)
(* effect that calls applyFilters                                            *)
historyFetched(data) ==
    /\ horders' = data
    /\ filteredOrders' = applyFilters(data, statusFilter, canteenFilter, dateFilter)
    /\ UNCHANGED <<statusFilter, canteenFilter, dateFilter>>
    /\ UNCHANGED <<storeVars, pageVars, tabVars, tabFeedVars, events, feedVars, dashVars, hookVars>>

(* one of the three inputs of the filters card is changed, or Reset Filters  *)
(* is clicked; the effect calls applyFilters                                 *)
setFilters(status, canteen, date) ==
    /\ statusFilter' = status /\ canteenFilter' = canteen /\ dateFilter' = date
    /\ filteredOrders' = applyFilters(horders, status, canteen, date)
    /\ UNCHANGED horders
    /\ UNCHANGED <<storeVars, pageVars, tabVars, tabFeedVars, events, feedVars, dashVars, hookVars>>

setStatusFilter(value) == setFilters(value, canteenFilter, dateFilter)
setCanteenFilter(value) == setFilters(statusFilter, value, dateFilter)
setDateFilter(value) == setFilters(statusFilter, canteenFilter, value)
resetFilters == setFilters("all", "all", <<>>)

InitHistory ==
    /\ horders = <<>> /\ filteredOrders = <<>>
    /\ statusFilter = "all" /\ canteenFilter = "all" /\ dateFilter = <<>>

----------------------------------------------------------------------------
(* Specifications *)

InitStore ==
    /\ user_roles = InitialRoles
    /\ menu_items = InitialMenu
    /\ orders = <<>>
    /\ order_items = {}
    /\ ins = [x \in Slots |-> NoInsert]
    /\ lastUpdate = NoUpdate
    /\ resp = [a \in ApiClients |-> ""]
    /\ sel = [a \in ApiClients |-> [orders |-> {}, order_items |-> {}]]

InitPages ==
    /\ menuItems = [p \in Pages |-> <<>>]
    /\ cart = [p \in Pages |-> <<>>]
    /\ placing = [p \in Pages |-> FALSE]
    /\ ppc = [p \in Pages |-> "mount"]
    /\ closure = [p \in Pages |-> NoClosure]
    /\ pickupCode = [p \in Pages |-> NULL]
    /\ showPickupDialog = [p \in Pages |-> FALSE]
    /\ ptoast = [p \in Pages |-> "none"]

InitTabs ==
    /\ vorders = [t \in Tabs |-> <<>>]
    /\ updatingOrderId = [t \in Tabs |-> 0]
    /\ vpc = [t \in Tabs |-> "mount"]
    /\ vtoast = [t \in Tabs |-> "none"]

NoReady == [id |-> 0, done |-> FALSE, toast |-> FALSE, notified |-> FALSE, granted |-> FALSE]

(* The dashboards of the vendors are open: their mount effect has run, the  *)
(* fetch is on its way and the channel is registered.  The dashboard of the *)
(* student is not open yet.                                                 *)
InitFeed(replicas, permissions) ==
    /\ vrefetch = [t \in Tabs |-> FALSE]
    /\ vloading = [t \in Tabs |-> TRUE]
    /\ vinflight = [t \in Tabs |-> 0]
    /\ mounted = [c \in Tabs \cup Dashes |-> c \in Tabs]
    /\ channels = Tabs
    /\ events = [c \in Tabs \cup Dashes |-> <<>>]
    /\ replica_identity \in replicas
    /\ permission \in [Dashes -> permissions]
    /\ notificationsEnabled = [d \in Dashes |-> FALSE]
    /\ handlerEnabled = [d \in Dashes |-> FALSE]
    /\ sorders = [d \in Dashes |-> <<>>]
    /\ sreq = [d \in Dashes |-> 0]
    /\ sresp = [d \in Dashes |-> {}]
    /\ sawait = [d \in Dashes |-> {}]
    /\ lastReady = [d \in Dashes |-> NoReady]

(* a page that calls useAuth has just mounted in a browser whose auth client *)
(* holds one of sessions                                                     *)
InitUseAuth(sessions) ==
    /\ user = null /\ session = null /\ userRole = null /\ loading = TRUE
    /\ authSession \in sessions
    /\ pending = {GetSession}
    /\ path = "/"
    /\ apc = Idle
    /\ returned = NothingReturned

(* The sessions: page p1 is a student's, a1 and a2 are REST callers signed   *)
(* in as anyone, a3 is the vendor of canteen c1, t1 is a dashboard of the    *)
(* vendor of c1 and t2 a dashboard of either vendor.                         *)
Sessions ==
    {f \in [Clients -> Users] :
        /\ f["p1"] = "s1"
        /\ f["d1"] = "s1"
        /\ f["a3"] = "v1"
        /\ f["t1"] = "v1"
        /\ f["t2"] \in Vendors}

InitWith(sessions) ==
    /\ auth \in sessions
    /\ InitStore /\ InitPages /\ InitTabs /\ InitUseAuth({null}) /\ InitHistory
    /\ InitFeed({"default"}, {"default"})

(* Bound: orders committed or being inserted *)
Room(max) == Len(orders) + InFlight < max

ValidRows(a) ==
    [student_id : {auth[a]}, canteen_id : CanteenIds, status : {"pending"},
     total_amount : {100}, pickup_code : {NULL}]

(* rows naming any student *)
RowsOfAnyone ==
    [student_id : Students, canteen_id : {"c1"}, status : {"pending"},
     total_amount : {100}, pickup_code : {NULL}]

(* rows of the caller with any status and any pickup code *)
RowsOfAnyKind(a) ==
    [student_id : {auth[a]}, canteen_id : {"c1"}, status : Statuses \cup {"cancelled"},
     total_amount : {100}, pickup_code : Codes \cup {NULL}]

(* rows of the caller that carry a pickup code, or none *)
RowsWithCode(a) ==
    [student_id : {auth[a]}, canteen_id : {"c1"}, status : {"pending"},
     total_amount : {100}, pickup_code : Codes \cup {NULL}]

ApiInserts(a, rows, max) ==
    \/ \E row \in rows : Room(max) /\ ApiInsertOrder(a, row)
    \/ GenerateLoop(a)
    \/ ApiInsertReturns(a)

ApiUpdates(a, statuses) ==
    \E id \in 1..MaxOrders, st \in statuses : ApiUpdateOrder(a, id, st)

AnyStatus == Statuses \cup {"cancelled"}

PageSteps(p, max, ids) ==
    \/ FetchCanteenAndMenu(p)
    \/ \E id \in ids : addToCart(p, id)
    \/ \E id \in ids : removeFromCart(p, id)
    \/ \E id \in ids : clearItemFromCart(p, id)
    \/ Room(max) /\ placeOrder(p)
    \/ GenerateLoop(p)
    \/ placeOrderInserted(p)
    \/ placeOrderItemsInserted(p)
    \/ closePickupDialog(p)

MenuSteps == \E uid \in Vendors, itemId \in MenuIds : handleDelete(uid, itemId)

(* a dashboard used through its buttons *)
TabSteps(t) ==
    \/ fetchCanteenAndOrders(t)
    \/ \E orderId \in 1..MaxOrders : clickMarkAsReady(t, orderId)
    \/ \E orderId \in 1..MaxOrders : clickMarkAsCompleted(t, orderId)
    \/ markOrderUpdated(t)
    \/ markOrderFetched(t)

(* markOrderReady / markOrderCompleted called with the id of any order *)
TabCalls(t) ==
    \/ fetchCanteenAndOrders(t)
    \/ \E orderId \in 1..MaxOrders : orderId \in DOMAIN orders /\ markOrderReady(t, orderId)
    \/ \E orderId \in 1..MaxOrders : orderId \in DOMAIN orders /\ markOrderCompleted(t, orderId)
    \/ markOrderUpdated(t)
    \/ markOrderFetched(t)

(* the subscription of a dashboard at work *)
TabFeed(t) ==
    \/ tabOrderInserted(t)
    \/ tabRefetched(t)

(* Spec: the store under concurrent order creations by two students and the  *)
(* status updates of the owning vendor.                                      *)
Init == InitWith({f \in Sessions : f["a1"] = "s1" /\ f["a2"] = "s2" /\ f["t2"] = "v1"})

Next ==
    \/ ApiInserts("a1", ValidRows("a1"), MaxOrders)
    \/ ApiInserts("a2", ValidRows("a2"), MaxOrders)
    \/ ApiUpdates("a3", AnyStatus)

Spec == Init /\ [][Next]_vars

(* SpecCreate: order creations alone *)
NextCreate ==
    \/ ApiInserts("a1", ValidRows("a1"), MaxOrders)
    \/ ApiInserts("a2", ValidRows("a2"), MaxOrders)

SpecCreate == Init /\ [][NextCreate]_vars

(* SpecAuth: a caller signed in as anyone inserts rows naming any student, a *)
(* second caller signed in as anyone updates.                                *)
InitAuth == InitWith({f \in Sessions : f["t2"] = "v1"})

NextAuth ==
    \/ ApiInserts("a1", RowsOfAnyone, MaxOrders)
    \/ ApiUpdates("a2", AnyStatus)

SpecAuth == InitAuth /\ [][NextAuth]_vars

(* SpecRows: a student sends rows of any status, with or without a pickup    *)
(* code; the owning vendor updates.                                          *)
NextRows ==
    \/ ApiInserts("a1", RowsOfAnyKind("a1"), MaxOrders)
    \/ ApiUpdates("a3", AnyStatus)

SpecRows == Init /\ [][NextRows]_vars

(* SpecPlace: the student side, CanteenMenu and MenuManagement *)
NextPlace ==
    \/ PageSteps("p1", MaxPlaced, MenuIds)
    \/ MenuSteps

SpecPlace == Init /\ [][NextPlace]_vars

(* SpecCode: a student places orders for item A next to a second student     *)
(* whose requests carry a pickup code; the owning vendor updates.            *)
NextCode ==
    \/ PageSteps("p1", MaxOrders, {"A"})
    \/ ApiInserts("a2", RowsWithCode("a2"), MaxOrders)
    \/ ApiUpdates("a3", {"completed"})

SpecCode == Init /\ [][NextCode]_vars

(* SpecDash: two dashboard sessions and the orders a student creates *)
InitDash == InitWith({f \in Sessions : f["a1"] = "s1" /\ f["a2"] = "s2"})

NextDash ==
    \/ ApiInserts("a1", ValidRows("a1"), MaxOrders)
    \/ \E t \in Tabs : TabSteps(t)

SpecDash == InitDash /\ [][NextDash]_vars

(* SpecCall: the dashboards' handlers called with any order id *)
NextCall ==
    \/ ApiInserts("a1", ValidRows("a1"), MaxPlaced)
    \/ \E t \in Tabs : TabCalls(t)

SpecCall == InitDash /\ [][NextCall]_vars

(* the student's dashboard at work *)
DashSteps(d) ==
    \/ mountStudentDashboard(d)
    \/ handleNotificationToggle(d)
    \/ orderUpdated(d)
    \/ \E o \in 1..MaxOrders : canteenFetched(d, o)
    \/ fetchOrdersRead(d)
    \/ fetchOrdersReturned(d)

(* rows of the caller for canteen c1 *)
RowsForC1(a) ==
    [student_id : {auth[a]}, canteen_id : {"c1"}, status : {"pending"},
     total_amount : {100}, pickup_code : {NULL}]

(* SpecFeed: a student creates orders and watches the dashboard while the    *)
(* owning vendor works through them in one dashboard session.  The table's   *)
(* replica identity is not set by the migrations; both settings are explored *)
InitFeedBoth ==
    /\ auth \in {f \in Sessions : f["a1"] = "s1" /\ f["a2"] = "s2" /\ f["t2"] = "v1"}
    /\ InitStore /\ InitPages /\ InitTabs /\ InitUseAuth({null}) /\ InitHistory
    /\ InitFeed(ReplicaIdentities, {"default", "granted"})

NextFeed ==
    \/ ApiInserts("a1", RowsForC1("a1"), MaxPlaced)
    \/ TabSteps("t1")
    \/ TabFeed("t1")
    \/ DashSteps("d1")

SpecFeed == InitFeedBoth /\ [][NextFeed]_vars

(* a dashboard whose buttons can be clicked only while it is mounted *)
TabStepsMounted(t) ==
    \/ fetchCanteenAndOrders(t)
    \/ \E orderId \in 1..MaxOrders : mounted[t] /\ clickMarkAsReady(t, orderId)
    \/ \E orderId \in 1..MaxOrders : mounted[t] /\ clickMarkAsCompleted(t, orderId)
    \/ markOrderUpdated(t)
    \/ markOrderFetched(t)

(* SpecDown: SpecFeed's clients, whose dashboards can also be left *)
NextDown ==
    \/ ApiInserts("a1", RowsForC1("a1"), MaxPlaced)
    \/ TabStepsMounted("t1")
    \/ TabFeed("t1")
    \/ DashSteps("d1")
    \/ \E c \in {"d1", "t1"} : unmountDashboard(c)

SpecDown == InitFeedBoth /\ [][NextDown]_vars

(* SpecTab: one dashboard session of the owning vendor with its subscription *)
(* and the orders a student creates                                          *)
NextTab ==
    \/ ApiInserts("a1", ValidRows("a1"), MaxOrders)
    \/ TabSteps("t1")
    \/ TabFeed("t1")

SpecTab == InitDash /\ [][NextTab]_vars

(* SpecLive: a student places an order for item A and the owning vendor      *)
(* works through it in one dashboard session; every store call can fail.     *)
(* Every store call returns: the steps that run when a response arrives are  *)
(* weakly fair, the clicks are not.                                          *)
PageReturns(p) ==
    \/ FetchCanteenAndMenu(p)
    \/ GenerateLoop(p)
    \/ placeOrderInserted(p)
    \/ placeOrderFailed(p)
    \/ placeOrderItemsInserted(p)
    \/ placeOrderItemsFailed(p)

TabReturns(t) ==
    \/ fetchCanteenAndOrders(t)
    \/ fetchCanteenAndOrdersFailed(t)
    \/ markOrderUpdated(t)
    \/ markOrderFailed(t)
    \/ markOrderFetched(t)

NextLive ==
    \/ PageSteps("p1", MaxPlaced, {"A"})
    \/ placeOrderFailed("p1")
    \/ placeOrderItemsFailed("p1")
    \/ TabSteps("t1")
    \/ markOrderFailed("t1")
    \/ fetchCanteenAndOrdersFailed("t1")

SpecLive ==
    /\ Init
    /\ [][NextLive]_vars
    /\ WF_vars(PageReturns("p1"))
    /\ WF_vars(TabReturns("t1"))

(* SpecMenu: the vendors add menu items and edit the price of item A while   *)
(* a student orders item A                                                   *)
PriceTexts == {<<>>, <<"x">>, <<"-">>, <<"0">>, <<"-", "5">>, <<"2", "0">>}

NextMenu ==
    \/ PageSteps("p1", MaxPlaced, {"A"})
    \/ \E uid \in Vendors, editingItem \in {"", "A"}, typed \in PriceTexts :
          handleSubmit(uid, editingItem, typed)

SpecMenu == Init /\ [][NextMenu]_vars

(* SpecShare: two dashboard sessions of the owning vendor, each with its     *)
(* subscription, and the orders a student creates                            *)
NextShare ==
    \/ ApiInserts("a1", RowsForC1("a1"), MaxPlaced)
    \/ \E t \in Tabs : TabSteps(t)
    \/ \E t \in Tabs : TabFeed(t)

SpecShare == Init /\ [][NextShare]_vars

(* SpecRead: a student orders item A on the page, a caller signed in as      *)
(* anyone creates orders and a second caller signed in as anyone reads       *)
NextRead ==
    \/ PageSteps("p1", MaxPlaced, {"A"})
    \/ ApiInserts("a1", ValidRows("a1"), MaxOrders)
    \/ ApiSelect("a2")

SpecRead == InitAuth /\ [][NextRead]_vars

(* SpecAgain: the owning vendor's handlers are called with the id of any     *)
(* order, also one already in the target status, while the student watches   *)
(* Bound: the events and fetches the student's dashboard has not handled *)
Backlog(d) == Len(events[d]) + Cardinality(sawait[d]) + sreq[d] + Cardinality(sresp[d])

NextAgain ==
    \/ ApiInserts("a1", RowsForC1("a1"), MaxPlaced)
    \/ fetchCanteenAndOrders("t1")
    \/ \E orderId \in DOMAIN orders :
          Backlog("d1") < MaxEvents /\ markOrderReady("t1", orderId)
    \/ \E orderId \in DOMAIN orders :
          Backlog("d1") < MaxEvents /\ markOrderCompleted("t1", orderId)
    \/ markOrderUpdated("t1")
    \/ markOrderFetched("t1")
    \/ DashSteps("d1")

SpecAgain == InitFeedBoth /\ [][NextAgain]_vars

(* SpecLoop: one student creates orders one after the other, one more than   *)
(* there are codes, and the vendor of c1 completes its orders.  The draws    *)
(* are fair: a value that stays free is drawn at some iteration.             *)
NextLoop ==
    \/ ApiInserts("a1", ValidRows("a1"), NumDraws + 1)
    \/ ApiUpdates("a3", {"completed"})

SpecLoop == Init /\ [][NextLoop]_vars /\ WF_vars(GenerateLoop("a1"))

(* SpecHook: one browser in which pages that call useAuth are opened, people *)
(* sign up, in and out, and a signed-in student who sends rows to user_roles *)
SignIns == {"s1", "v1"}

NextHook ==
    \/ \E to \in Paths : mountUseAuth(to)
    \/ getSessionReturned
    \/ authStateChanged
    \/ \E u \in SignIns : signIn(u)
    \/ \E c \in pending, failed \in BOOLEAN : fetchUserRoleReturned(c, failed)
    \/ roleGuard
    \/ \E u \in Registrants, role \in Roles : signUp(u, role)
    \/ \E outcome \in {"error", "session", "user"} : signUpReturned(outcome)
    \/ \E failed \in BOOLEAN : signUpRoleInserted(failed)
    \/ signOut
    \/ \E error \in SignOutOutcomes : signOutReturned(error)
    \/ \E user_id \in SignIns, role \in Roles : ApiInsertRole("a1", user_id, role)

SpecHook == Init /\ [][NextHook]_vars

(* SpecHistory: the order history page of a student *)
NextHistory ==
    \/ \E data \in Histories : historyFetched(data)
    \/ \E value \in {"all", "pending", "ready"} : setStatusFilter(value)
    \/ \E value \in {"all"} \cup CanteenIds : setCanteenFilter(value)
    \/ \E value \in {<<>>} \cup Dates : setDateFilter(value)
    \/ resetFilters

SpecHistory == Init /\ [][NextHistory]_vars

----------------------------------------------------------------------------
(* Properties *)

Active(o) == orders[o].status \in {"pending", "ready"}

(* the statement of client x ends in this step *)
Finishes(x) == ins[x].phase = "row" /\ ins'[x].phase = "none"

(* a row is added to orders in this step *)
RowAdded == Len(orders') = Len(orders) + 1

ItemsOf(o) == {i \in order_items : i.order_id = o}

RECURSIVE SumItems(_)
SumItems(items) ==
    IF items = {} THEN 0
    ELSE LET i == CHOOSE i \in items : TRUE
         IN  i.quantity * i.price + SumItems(items \ {i})

(* C1: in every reachable state no two orders whose status is pending or     *)
(* ready have the same pickup code.                                          *)
C1_ActiveCodesUnique ==
    \A o1, o2 \in DOMAIN orders :
        (o1 # o2 /\ Active(o1) /\ Active(o2))
            => orders[o1].pickup_code # orders[o2].pickup_code

(* C2: every change of an order's status is pending -> ready or              *)
(* ready -> completed; no update skips a state or moves an order backward.   *)
C2_StatusOnlyForward ==
    [][\A o \in DOMAIN orders :
          orders'[o].status # orders[o].status
              => <<orders[o].status, orders'[o].status>>
                    \in {<<"pending", "ready">>, <<"ready", "completed">>}]_vars

(* C3: an order's status changes only in an update issued by the vendor who  *)
(* owns the order's canteen; an update by any other actor leaves it as it is. *)
C3_OnlyOwnerChangesStatus ==
    [][\A o \in DOMAIN orders :
          orders'[o].status # orders[o].status
              => /\ lastUpdate'.id = o
                 /\ canteens[orders[o].canteen_id].vendor_id = auth[lastUpdate'.client]]_vars

(* C3 witness: the last update was a non-owner's attempt to mark a pending   *)
(* order ready, and the order is still pending.                              *)
C3_Witness ==
    /\ lastUpdate.id \in DOMAIN orders
    /\ lastUpdate.status = "ready"
    /\ canteens[orders[lastUpdate.id].canteen_id].vendor_id # auth[lastUpdate.client]
    /\ auth[lastUpdate.client] \in Vendors
    /\ orders[lastUpdate.id].status = "pending"

C5_TotalIsSumOfItems ==
    \A p \in Pages :
        (ppc[p] \in {"idle", "dialog"} /\ closure[p].orderData.id # 0)
            => LET o == closure[p].orderData.id
               IN  /\ orders[o].total_amount = SumItems(ItemsOf(o))
                   /\ Cardinality(ItemsOf(o)) = Len(closure[p].cart)

(* C6: nothing in the insert path looks at the pickup code again: an insert  *)
(* whose row passes the policy, the status check and the foreign keys is     *)
(* committed with the code the generator returned, whatever codes the rows   *)
(* committed meanwhile hold.                                                 *)
C6_InsertNotGuardedByCode ==
    [][\A x \in Slots :
          (/\ Finishes(x)
           /\ ins[x].new.student_id = auth[x]
           /\ <<auth[x], "student">> \in user_roles
           /\ ins[x].new.status \in Statuses
           /\ ins[x].new.canteen_id \in CanteenIds)
              => /\ orders' = Append(orders, ins[x].new)
                 /\ orders'[Len(orders')].pickup_code = ins[x].code]_vars

(* C6 witness: with creations alone, two pending orders hold the same code   *)
C6_Witness ==
    \E o1, o2 \in DOMAIN orders :
        /\ o1 # o2
        /\ orders[o1].status = "pending" /\ orders[o2].status = "pending"
        /\ orders[o1].pickup_code = orders[o2].pickup_code

(* C7: the code of a row never changes, so a completed order keeps its code; *)
(* and the code the generator returns is, in the state its check read, the   *)
(* code of no pending or ready order (a completed order's code may be it).   *)
C7_CodeKeptAndActiveCodesNotReturned ==
    [][/\ \A o \in DOMAIN orders : orders'[o].pickup_code = orders[o].pickup_code
       /\ \A x \in Slots :
            (ins[x].phase = "loop" /\ ins'[x].phase = "row")
                => /\ ins'[x].code \in Codes
                   /\ \A o \in DOMAIN orders :
                        Active(o) => orders[o].pickup_code # ins'[x].code]_vars

(* C7 witness: student s1's first order is completed and still holds its     *)
(* code, and s1's next order, created after it, is active with the same code *)
C7_Witness ==
    /\ Len(orders) >= 2
    /\ orders[1].student_id = "s1" /\ orders[2].student_id = "s1"
    /\ orders[1].status = "completed"
    /\ Active(2)
    /\ orders[1].pickup_code = orders[2].pickup_code

(* C8: every committed row holds a code, which is the one the trigger's      *)
(* generator returned for it and not the one the caller supplied, and which  *)
(* never changes afterwards; the code in the pickup dialog is the stored one *)
C8_CodeSetByTrigger ==
    /\ [](\A o \in DOMAIN orders : orders[o].pickup_code \in Codes)
    /\ [](\A p \in Pages :
            showPickupDialog[p]
                => /\ closure[p].orderData.id \in DOMAIN orders
                   /\ pickupCode[p] = orders[closure[p].orderData.id].pickup_code)
    /\ [][/\ \A o \in DOMAIN orders : orders'[o].pickup_code = orders[o].pickup_code
          /\ \A x \in Slots :
                (Finishes(x) /\ RowAdded)
                    => /\ ins[x].code # NULL
                       /\ orders'[Len(orders')].pickup_code = ins[x].code
                       /\ (ins[x].supplied # ins[x].code
                              => orders'[Len(orders')].pickup_code # ins[x].supplied)]_vars

(* C8 witness: the dialog shows the code of the placed order while the       *)
(* trigger has replaced the code another caller supplied                     *)
C8_Witness ==
    /\ showPickupDialog["p1"]
    /\ pickupCode["p1"] \in Codes
    /\ ins["a2"].phase = "row"
    /\ ins["a2"].supplied # NULL
    /\ ins["a2"].new.pickup_code # ins["a2"].supplied

(* C9: every row added to orders has status pending *)
C9_CreatedPending ==
    [][RowAdded => orders'[Len(orders')].status = "pending"]_vars

(* C10: a dashboard shows the success toast of markOrderReady /              *)
(* markOrderCompleted (and goes on to re-fetch) only when its vendor owns    *)
(* the canteen of the order                                                  *)
C10_SuccessOnlyForOwner ==
    \A t \in Tabs :
        (vpc[t] = "fetch" /\ vtoast[t] = "success")
            => canteens[orders[updatingOrderId[t]].canteen_id].vendor_id = auth[t]

(* C11: a status transition changes the status of a row and nothing else:    *)
(* student_id, canteen_id, total_amount and pickup_code of every order are   *)
(* the same after any step as before it.                                     *)
C11_TransitionChangesStatusOnly ==
    [][\A o \in DOMAIN orders :
          orders'[o] = [orders[o] EXCEPT !.status = orders'[o].status]]_vars

(* C11 witness: the dashboard has taken an order to completed and the order  *)
(* holds a generated code                                                    *)
C11_Witness ==
    /\ lastUpdate.client \in Tabs
    /\ lastUpdate.id \in DOMAIN orders
    /\ orders[lastUpdate.id].status = "completed"
    /\ orders[lastUpdate.id].pickup_code \in Codes

(* C12: an order and its line items are created atomically: when a placement *)
(* has failed after its insert into orders had succeeded, the order row of   *)
(* that attempt is not in the store.                                         *)
C12_FailedPlacementLeavesNothing ==
    \A p \in Pages :
        (ppc[p] = "idle" /\ ptoast[p] = "error" /\ closure[p].orderData.id # 0)
            => closure[p].orderData.id \notin DOMAIN orders

(* every event is delivered, every handler has finished and every fetch of   *)
(* the dashboard has returned                                                *)
Quiet(d) == events[d] = <<>> /\ sawait[d] = {} /\ sreq[d] = 0 /\ sresp[d] = {}

(* C13: once the student's live dashboard has handled the event of its       *)
(* order going from pending to ready and all its fetches have returned, the  *)
(* 'ready for pickup' toast was shown and, the order still being ready, the  *)
(* dashboard's list shows it as ready.                                       *)
C13_ReadyReachesStudent ==
    \A d \in Dashes :
        (/\ mounted[d] /\ Quiet(d)
         /\ lastReady[d].done
         /\ orders[lastReady[d].id].status = "ready")
            => /\ lastReady[d].toast
               /\ lastReady[d].id \in DOMAIN sorders[d]
               /\ sorders[d][lastReady[d].id] = "ready"

(* C14: when a pending -> ready event of the student's order has been        *)
(* handled, the toast was shown, and the system notification was shown if    *)
(* and only if the permission was granted at that time.                      *)
C14_NotifiedIffGranted ==
    \A d \in Dashes :
        lastReady[d].done
            => /\ lastReady[d].toast
               /\ lastReady[d].notified <=> lastReady[d].granted

(* C15: a dashboard that has been torn down has no registered channel left   *)
C15_ChannelReleasedOnUnmount ==
    \A c \in Dashes \cup Tabs : ~mounted[c] => c \notin channels

(* C16: a dashboard session has at most one status-update request in flight, *)
(* and while one is in flight updatingOrderId is set                         *)
C16_OneUpdateInFlight ==
    \A t \in Tabs :
        /\ vinflight[t] <= 1
        /\ vinflight[t] = 1 => updatingOrderId[t] # 0

(* C16 witness: a request is in flight while the list shows another order    *)
(* whose button is not disabled                                              *)
C16_Witness ==
    \E t \in Tabs :
        /\ vinflight[t] = 1
        /\ \E o \in pendingOrders(t) \cup readyOrders(t) : o # updatingOrderId[t]

(* C17: every operation that sets placing, updatingOrderId or loading resets *)
(* the flag once its store calls have returned, with or without an error     *)
C17_FlagsEventuallyReset ==
    /\ placing["p1"] ~> ~placing["p1"]
    /\ (updatingOrderId["t1"] # 0) ~> (updatingOrderId["t1"] = 0)
    /\ vloading["t1"] ~> ~vloading["t1"]

(* C17 witness: a placement and a status update have failed and their flags  *)
(* are back at the idle value                                                *)
C17_Witness ==
    /\ ptoast["p1"] = "error" /\ ppc["p1"] = "idle" /\ ~placing["p1"]
    /\ vtoast["t1"] = "error" /\ vpc["t1"] = "idle" /\ updatingOrderId["t1"] = 0
    /\ ~vloading["t1"]
    /\ orders # <<>>

(* C18: malformed input is rejected before any store request: placeOrder     *)
(* sends no insert for an empty cart, and no menu item is stored with a      *)
(* price that is zero or negative                                            *)
C18_MalformedInputRejected ==
    /\ \A p \in Pages : ins[p].phase # "none" => closure[p].cart # <<>>
    /\ \A m \in DOMAIN menu_items : menu_items[m].price > 0

(* C19: once every event has been delivered and every re-fetch has returned, *)
(* the student's list shows each of its orders in the status the store holds *)
C19_ListEqualsStoreWhenQuiet ==
    \A d \in Dashes :
        mounted[d] /\ Quiet(d) =>
            \A o \in DOMAIN sorders[d] : sorders[d][o] = orders[o].status

(* C20: after a status update has committed and every event and fetch it     *)
(* caused has been handled, every open dashboard that lists the order shows  *)
(* its new status                                                            *)
C20_UpdateReachesEverySession ==
    (/\ \A t \in Tabs : events[t] = <<>> /\ ~vrefetch[t] /\ vpc[t] = "idle"
     /\ \A d \in Dashes : Quiet(d))
    => /\ \A t \in Tabs : mounted[t] =>
             \A o \in DOMAIN vorders[t] : vorders[t][o] = orders[o].status
       /\ \A d \in Dashes : mounted[d] =>
             \A o \in DOMAIN sorders[d] : sorders[d][o] = orders[o].status

(* C21: a SELECT returns to a student exactly the orders with its            *)
(* student_id, to a vendor only orders of a canteen it owns, to nobody an    *)
(* order that is neither, and line items only of orders the caller can read  *)
C21_ReadsScopedByOwnership ==
    [][\A a \in ApiClients :
          sel'[a] # sel[a] =>
            /\ has_role(user_roles, auth[a], "student") =>
                  sel'[a].orders = {o \in DOMAIN orders : orders[o].student_id = auth[a]}
            /\ has_role(user_roles, auth[a], "vendor") =>
                  \A o \in sel'[a].orders : canteens[orders[o].canteen_id].vendor_id = auth[a]
            /\ \A o \in sel'[a].orders :
                  \/ orders[o].student_id = auth[a]
                  \/ canteens[orders[o].canteen_id].vendor_id = auth[a]
            /\ \A i \in sel'[a].order_items : i.order_id \in sel'[a].orders]_vars

(* C21 witness: the store holds orders of two students; a caller has read    *)
(* some orders with their line items and not the others                      *)
C21_Witness ==
    /\ \E o1, o2 \in DOMAIN orders : orders[o1].student_id # orders[o2].student_id
    /\ sel["a2"].orders # {}
    /\ sel["a2"].order_items # {}
    /\ \E o \in DOMAIN orders : o \notin sel["a2"].orders /\ orders[o].student_id # auth["a2"]
                                  /\ canteens[orders[o].canteen_id].vendor_id # auth["a2"]

(* C22: when the owning vendor's update of an order already in the target    *)
(* status returns, the dashboard shows success and no order has changed; and *)
(* the student's handler starts an 'order is ready' notification only for a  *)
(* change that took the order from pending                                   *)
C22_SameStateIsNoOp ==
    [][/\ \A t \in Tabs :
             /\ vpc[t] \in {"ready", "completed"}
             /\ vpc'[t] \notin {"ready", "completed"}
             /\ orders[updatingOrderId[t]].status = vpc[t]
             => vtoast'[t] = "success" /\ orders' = orders
       /\ \A d \in Dashes :
             sawait'[d] \ sawait[d] # {} => Head(events[d]).was = "pending"]_vars

(* C22 witness: markOrderReady has returned with success for an order that   *)
(* was ready, and the event of that update is on its way to the student      *)
C22_Witness ==
    /\ vtoast["t1"] = "success"
    /\ lastUpdate.client = "t1" /\ lastUpdate.status = "ready"
    /\ \E k \in DOMAIN events["d1"] :
          events["d1"][k].was = "ready" /\ events["d1"][k].new = "ready"

(* C23: the line items of an order never change once they are stored: none   *)
(* is removed or modified while its order exists, and none is added to an    *)
(* order that already has line items                                         *)
C23_LineItemsImmutable ==
    [][/\ \A i \in order_items : i.order_id \in DOMAIN orders' => i \in order_items'
       /\ \A i \in order_items' \ order_items : ItemsOf(i.order_id) = {}]_vars

(* C24: the price stored on a line item is the price the store holds for the *)
(* menu item when the line item is stored                                    *)
C24_LineItemPriceIsStorePrice ==
    [][\A i \in order_items' \ order_items :
          /\ i.menu_item_id \in DOMAIN menu_items
          /\ i.price = menu_items[i.menu_item_id].price]_vars

(* C25: saving a menu item leaves every stored line item and every order as  *)
(* it was                                                                    *)
C25_PriceEditLeavesOrders ==
    [][menu_items' # menu_items => order_items' = order_items /\ orders' = orders]_vars

(* C25 witness: an order is placed with its line item and the store's price  *)
(* of the menu item is no longer the line item's                             *)
C25_Witness ==
    /\ ppc["p1"] = "dialog"
    /\ \E i \in order_items :
          /\ menu_items[i.menu_item_id].price # i.price
          /\ orders[i.order_id].total_amount = i.price * i.quantity

(* C26: the value generate_pickup_code returns is a text of six decimal      *)
(* digits that, in the state its last check read, is not the pickup code of  *)
(* an order with status pending or ready                                     *)
C26_ReturnedCodeIsFree ==
    [][\A x \in Slots :
          ins[x].phase = "loop" /\ ins'[x].phase = "row" =>
            /\ Len(ins'[x].code) = CodeWidth
            /\ \A k \in DOMAIN ins'[x].code : ins'[x].code[k] \in 0..9
            /\ ~\E o \in DOMAIN orders :
                   /\ orders[o].pickup_code = ins'[x].code
                   /\ orders[o].status \in {"pending", "ready"}]_vars

(* C26 witness: the function has returned the code a completed order holds   *)
C26_Witness ==
    \E x \in Slots :
        /\ ins[x].phase = "row"
        /\ \E o \in DOMAIN orders :
              orders[o].status = "completed" /\ orders[o].pickup_code = ins[x].code

(* C27: generate_pickup_code returns at some iteration when a code is not    *)
(* held by an active order, and no iteration returns while every code is     *)
(* held by an active order                                                   *)
C27_LoopHasNoRetryBound ==
    /\ \A x \in Slots :
          (ins[x].phase = "loop" /\ \E code \in Codes : ~code_exists(orders, code))
              ~> (ins[x].phase # "loop")
    /\ [][\A x \in Slots :
             ins[x].phase = "loop" /\ (\A code \in Codes : code_exists(orders, code))
                 => ins'[x].phase = "loop"]_vars

(* C27 witness: an insert is in the loop while every code is held by an      *)
(* active order                                                              *)
C27_Witness ==
    /\ ins["a1"].phase = "loop"
    /\ \A code \in Codes : code_exists(orders, code)

C29_SequentialCodesUnique ==
    \A o1, o2 \in DOMAIN orders :
        /\ o1 # o2
        /\ orders[o1].status \in {"pending", "ready"}
        /\ orders[o2].status \in {"pending", "ready"}
        => orders[o1].pickup_code # orders[o2].pickup_code

(* C29 witness: two orders hold the same code; the first one is completed,   *)
(* the second one, created after it, is active                               *)
C29_Witness ==
    /\ Len(orders) = MaxOrders
    /\ \E o1, o2 \in DOMAIN orders :
          /\ o1 < o2
          /\ orders[o1].pickup_code = orders[o2].pickup_code
          /\ orders[o1].status = "completed"
          /\ orders[o2].status \in {"pending", "ready"}

(* C30: in every state a vendor dashboard lists only orders of the canteen   *)
(* its vendor owns                                                           *)
C30_ListHoldsOwnCanteenOnly ==
    \A t \in Tabs : \A o \in DOMAIN vorders[t] :
        canteens[orders[o].canteen_id].vendor_id = auth[t]

(* C30 witness: the dashboard lists an order created after an order of       *)
(* another canteen, which it does not list                                   *)
C30_Witness ==
    \E o1, o2 \in DOMAIN orders :
        /\ o1 < o2
        /\ canteens[orders[o1].canteen_id].vendor_id # auth["t1"]
        /\ o1 \notin DOMAIN vorders["t1"]
        /\ o2 \in DOMAIN vorders["t1"]

(* C31: the cart holds at most one entry per menu item, each of quantity 1   *)
(* or more; every stored line item has a positive quantity; and the total    *)
(* the page shows is the sum of price times quantity over the cart           *)
C31_CartWellFormed ==
    /\ \A p \in Pages :
          /\ \A k1, k2 \in DOMAIN cart[p] : k1 # k2 => cart[p][k1].id # cart[p][k2].id
          /\ \A k \in DOMAIN cart[p] : cart[p][k].quantity >= 1
          /\ totalAmount(cart[p]) = SumItems({cart[p][k] : k \in DOMAIN cart[p]})
    /\ \A i \in order_items : i.quantity >= 1

(* C31 witness: a cart of two entries, one of quantity 1 and one of more,    *)
(* next to a stored order                                                    *)
C31_Witness ==
    /\ order_items # {}
    /\ Len(cart["p1"]) = Cardinality(MenuIds)
    /\ \E k1, k2 \in DOMAIN cart["p1"] :
          cart["p1"][k1].quantity = 1 /\ cart["p1"][k2].quantity > 1

(* C32: the student's handler starts the 'order is ready' toast and          *)
(* notification only on an event of the student's own order that went from   *)
(* pending to ready, and an event whose status did not change starts no      *)
(* fetchOrders                                                               *)
C32_OnlyPendingToReadyNotifies ==
    [][\A d \in Dashes :
          (events[d] # <<>> /\ events'[d] = Tail(events[d]))
              => LET e == Head(events[d])
                 IN  /\ sawait'[d] # sawait[d]
                          => /\ orders[e.id].student_id = auth[d]
                             /\ e.was = "pending" /\ e.new = "ready"
                     /\ e.was = e.new => sreq'[d] = sreq[d]]_vars

(* C33: when useAuth reports loading = false and a user who has one role,    *)
(* userRole is that role                                                     *)
C33_RoleKnownWhenLoaded ==
    \A role \in Roles :
        (/\ ~loading
         /\ user # null
         /\ {row \in user_roles : row[1] = user} = {<<user, role>>})
            => userRole = role

(* C34: when signUp has returned {error: null}, user_roles holds the row of  *)
(* the new user with the chosen role                                         *)
C34_SignUpSuccessMeansRole ==
    (returned.call = "signUp" /\ returned.error = null)
        => <<returned.userId, returned.role>> \in user_roles

(* C35: the step that ends signOut leaves user, session and userRole null    *)
(* and the location at "/", whatever auth.signOut returned                   *)
C35_SignOutClearsState ==
    [][(apc.at = "auth.signOut" /\ apc'.at = "")
          => /\ user' = null /\ session' = null /\ userRole' = null
             /\ path' = "/"]_vars

(* C35 witness: signOut has ended with an error other than the missing       *)
(* session, and the auth client still holds its session                      *)
C35_Witness ==
    /\ returned.call = "signOut" /\ returned.error = "other"
    /\ apc = Idle
    /\ authSession # null
    /\ user = null /\ path = "/"

(* C36: no user holds two roles *)
C36_OneRolePerUser ==
    \A u \in Users \cup Registrants :
        ~(has_role(user_roles, u, "student") /\ has_role(user_roles, u, "vendor"))

(* C37: the filtered list of the order history holds, in the order of the    *)
(* full list, the orders that have the chosen status, belong to the chosen   *)
(* canteen and were created on the chosen date, each filter counting only if *)
(* it is set                                                                 *)
C37_FilteredEqualsMatching ==
    LET Matches(order) ==
            /\ statusFilter # "all" => order.status = statusFilter
            /\ canteenFilter # "all" => order.canteen_id = canteenFilter
            /\ dateFilter # <<>> => order.created_at \div InstantsPerDay
                                       = CHOOSE d \in 0..MaxInstant : ToText(d) = dateFilter
    IN  filteredOrders = SelectSeq(horders, Matches)

====
